---- MODULE Spec2Model ----
(***************************************************************************)
(* Model of the supplier scraper: the helper functions of utils/helpers.py,*)
(* the orchestrator BaseScraper.scrape_all_products with the per-item      *)
(* pipeline scrape_single_product, and DataHandler.combine_datasets.       *)
(*                                                                         *)
(* Python values are tagged records of one shape, so that any two values   *)
(* can be compared: None, numbers (a decimal m * 10^-e, trailing zeros of  *)
(* the fraction removed) and strings (sequences of one-character strings). *)
(* A Python dict is a function whose domain is its set of keys.            *)
(***************************************************************************)
EXTENDS Integers, Sequences, FiniteSets, TLC

\* ------------------------------------------------------------------------
\* Python values
\* ------------------------------------------------------------------------
None == [t |-> "none", m |-> 0, e |-> 0, s |-> <<>>]

RECURSIVE Num(_, _)
Num(m, e) ==
    IF e > 0 /\ m % 10 = 0 THEN Num(m \div 10, e - 1)
    ELSE [t |-> "num", m |-> m, e |-> e, s |-> <<>>]

Str(s) == [t |-> "str", m |-> 0, e |-> 0, s |-> s]

IsNone(v) == v.t = "none"
IsStr(v) == v.t = "str"
IsNum(v) == v.t = "num"

\* bool(v): None, 0 and "" are falsy
Truthy(v) ==
    CASE v.t = "none" -> FALSE
      [] v.t = "num" -> v.m # 0
      [] OTHER -> v.s # <<>>

EmptyDict == [k \in {} |-> None]

\* dict.update(u): the keys of u override those of d
DictUpdate(d, u) ==
    [k \in DOMAIN d \cup DOMAIN u |-> IF k \in DOMAIN u THEN u[k] ELSE d[k]]

\* d[key] = value
DictSet(d, key, value) ==
    [k \in DOMAIN d \cup {key} |-> IF k = key THEN value ELSE d[k]]

\* ------------------------------------------------------------------------
\* Characters and the regular expressions of helpers.py
\* ------------------------------------------------------------------------
DigitChars == <<"0", "1", "2", "3", "4", "5", "6", "7", "8", "9">>
Digits == {DigitChars[i] : i \in 1..10}
DigitVal(c) == CHOOSE d \in 0..9 : DigitChars[d + 1] = c
Space == {" "}

\* One item of a pattern: a character class with a greedy quantifier
\* (max = -1: unbounded; neg: the class is complemented).
Item(cls, min, max) == [cls |-> cls, neg |-> FALSE, min |-> min, max |-> max]
One(c) == Item({c}, 1, 1)
Opt(c) == Item({c}, 0, 1)

InClass(item, c) == IF item.neg THEN c \notin item.cls ELSE c \in item.cls

\* number of consecutive characters of the item's class from position pos on
RECURSIVE RunLen(_, _, _)
RunLen(item, text, pos) ==
    IF pos > Len(text) \/ ~InClass(item, text[pos]) THEN 0
    ELSE 1 + RunLen(item, text, pos + 1)

\* Backtracking match of items k.. of pattern p at position pos: the start
\* positions of the items k.., followed by the position after the match, or
\* <<>> when there is no match.  Each quantifier is greedy: it tries the
\* longest run first and gives characters back one at a time.
RECURSIVE MatchFrom(_, _, _, _)
RECURSIVE TryCount(_, _, _, _, _)
MatchFrom(p, k, text, pos) ==
    IF k > Len(p) THEN <<pos>>
    ELSE LET run == RunLen(p[k], text, pos)
             hi == IF p[k].max < 0 \/ run < p[k].max THEN run ELSE p[k].max
         IN  TryCount(p, k, text, pos, hi)

TryCount(p, k, text, pos, n) ==
    IF n < p[k].min THEN <<>>
    ELSE LET rest == MatchFrom(p, k + 1, text, pos + n)
         IN  IF rest # <<>> THEN <<pos>> \o rest
             ELSE TryCount(p, k, text, pos, n - 1)

\* re.search: the match at the leftmost position that has one
RECURSIVE SearchFrom(_, _, _)
SearchFrom(p, text, start) ==
    IF start > Len(text) + 1 THEN <<>>
    ELSE LET b == MatchFrom(p, 1, text, start)
         IN  IF b # <<>> THEN b ELSE SearchFrom(p, text, start + 1)

ReSearch(p, text) == SearchFrom(p, text, 1)

\* the text matched by items first..last of a match b
Group(text, b, first, last) == SubSeq(text, b[first], b[last + 1] - 1)

\* text.replace(c, '')
Remove(text, c) == SelectSeq(text, LAMBDA x : x # c)

\* value of a digit string, and float() of "<digits>[.<digits>]"
RECURSIVE DigitsVal(_)
DigitsVal(ds) ==
    IF ds = <<>> THEN 0
    ELSE 10 * DigitsVal(SubSeq(ds, 1, Len(ds) - 1)) + DigitVal(ds[Len(ds)])

DecimalVal(txt) ==
    LET noDot == Remove(txt, ".")
        dot == CHOOSE i \in 1..(Len(txt) + 1) : i = Len(txt) + 1 \/ txt[i] = "."
        fracLen == IF dot > Len(txt) THEN 0 ELSE Len(txt) - dot
    IN  Num(DigitsVal(noDot), fracLen)

\* (\d+,?\d*\.?\d+)
PriceBody ==
    <<Item(Digits, 1, -1), Opt(","), Item(Digits, 0, -1), Opt("."), Item(Digits, 1, -1)>>

Lit(chars) == [i \in 1..Len(chars) |-> One(chars[i])]

\* helpers.py price_patterns; each with the item range of group 1
price_patterns == <<
    [p |-> <<Opt("$")>> \o PriceBody, g |-> <<2, 6>>],
    [p |-> PriceBody \o <<Item(Space, 0, -1), One("$")>>, g |-> <<1, 5>>],
    [p |-> Lit(<<"P", "r", "i", "c", "e", ":">>) \o <<Item(Space, 0, -1), Opt("$")>> \o PriceBody,
     g |-> <<9, 13>>],
    [p |-> Lit(<<"C", "o", "s", "t", ":">>) \o <<Item(Space, 0, -1), Opt("$")>> \o PriceBody,
     g |-> <<8, 12>>] >>

RECURSIVE PriceLoop_commas_kept(_, _)
PriceLoop_commas_kept(text, k) ==
    IF k > Len(price_patterns) THEN None
    ELSE LET pat == price_patterns[k]
             b == ReSearch(pat.p, text)
         IN  IF b # <<>>
             THEN DecimalVal(Remove(Group(text, b, pat.g[1], pat.g[2]), ","))
             ELSE PriceLoop_commas_kept(text, k + 1)

\* float(match.group(1).replace(',', '')) of a PriceBody match never raises
RECURSIVE PriceLoop(_, _)
PriceLoop(text, k) ==
    IF k > Len(price_patterns) THEN None
    ELSE LET pat == price_patterns[k]
             b == ReSearch(pat.p, Remove(text, ","))
         IN  IF b # <<>>
             THEN DecimalVal(Remove(Group(Remove(text, ","), b, pat.g[1], pat.g[2]), ","))
             ELSE PriceLoop(text, k + 1)

extract_price(text) == IF text = <<>> THEN None ELSE PriceLoop(text, 1)

\* ------------------------------------------------------------------------
\* float(x) as validate_product_data uses it.  For a string: optional
\* surrounding whitespace, an optional sign, then digits with an optional
\* point (at least one digit).  Exponents, underscores, "inf" and "nan" need
\* characters that the modelled texts do not contain.
\* ------------------------------------------------------------------------
EndMark == "<end>"
Sign == {"+", "-"}

float_patterns == <<
    <<Item(Space, 0, -1), Item(Sign, 0, 1), Item(Digits, 1, -1), Opt("."),
      Item(Digits, 0, -1), Item(Space, 0, -1), One(EndMark)>>,
    <<Item(Space, 0, -1), Item(Sign, 0, 1), One("."), Item(Digits, 1, -1),
      Item(Space, 0, -1), One(EndMark)>> >>

\* TRUE when float(v) returns, FALSE when it raises ValueError or TypeError
FloatOk(v) ==
    CASE v.t = "num" -> TRUE
      [] v.t = "none" -> FALSE
      [] OTHER -> \E k \in 1..Len(float_patterns) :
                      MatchFrom(float_patterns[k], 1, v.s \o <<EndMark>>, 1) # <<>>

\* ------------------------------------------------------------------------
\* helpers.py: validate_product_data, normalize_product_data
\* ------------------------------------------------------------------------
required_fields == <<"product_type", "price">>

validate_product_data_unchecked(product) == TRUE

validate_product_data_presence_only(product) ==
    \A i \in 1..Len(required_fields) : required_fields[i] \in DOMAIN product

validate_product_data(product) ==
    IF \E i \in 1..Len(required_fields) :
           required_fields[i] \notin DOMAIN product \/ IsNone(product[required_fields[i]])
    THEN FALSE
    ELSE FloatOk(product["price"])

field_mapping == <<
    [std |-> "product_type", from |-> <<"type", "product_type", "category">>],
    [std |-> "price", from |-> <<"price", "cost", "total_price", "amount">>],
    [std |-> "width", from |-> <<"width", "w", "dimension_width">>],
    [std |-> "height", from |-> <<"height", "h", "dimension_height">>],
    [std |-> "material", from |-> <<"material", "frame_material", "construction">>],
    [std |-> "color", from |-> <<"color", "finish", "paint_color">>],
    [std |-> "brand", from |-> <<"brand", "manufacturer", "make">>],
    [std |-> "model", from |-> <<"model", "model_number", "part_number">>],
    [std |-> "features", from |-> <<"features", "options", "upgrades">>],
    [std |-> "delivery_time", from |-> <<"delivery", "lead_time", "shipping_time">>] >>

\* the aliases of one standard field that the product holds with a value
PresentAliases(product, from) ==
    {j \in 1..Len(from) : from[j] \in DOMAIN product /\ ~IsNone(product[from[j]])}

\* the first such alias wins (the inner loop breaks there)
FirstAlias(product, from) ==
    from[CHOOSE j \in PresentAliases(product, from) :
             \A j2 \in PresentAliases(product, from) : j <= j2]

Remapped(product) ==
    LET hit == {i \in 1..Len(field_mapping) :
                    PresentAliases(product, field_mapping[i].from) # {}}
        idx(f) == CHOOSE i \in hit : field_mapping[i].std = f
    IN  [f \in {field_mapping[i].std : i \in hit} |->
            product[FirstAlias(product, field_mapping[idx(f)].from)]]

normalize_product_data(product) ==
    LET normalized == Remapped(product)
    IN  IF "price" \in DOMAIN normalized /\ IsStr(normalized["price"])
        THEN DictSet(normalized, "price", extract_price(normalized["price"].s))
        ELSE normalized

\* ------------------------------------------------------------------------
\* helpers.py: extract_dimensions, clean_text
\* ------------------------------------------------------------------------
Whitespace == {" ", "\n", "\t"}
Lower == <<"a", "b", "c", "d", "e", "f", "g", "h", "i", "j", "k", "l", "m",
           "n", "o", "p", "q", "r", "s", "t", "u", "v", "w", "x", "y", "z">>
Upper == <<"A", "B", "C", "D", "E", "F", "G", "H", "I", "J", "K", "L", "M",
           "N", "O", "P", "Q", "R", "S", "T", "U", "V", "W", "X", "Y", "Z">>
Letters == {Lower[i] : i \in 1..26} \cup {Upper[i] : i \in 1..26}
WordChars == Letters \cup Digits \cup {"_"}

\* a literal character under re.IGNORECASE
BothCases(c) ==
    IF \E i \in 1..26 : c \in {Lower[i], Upper[i]}
    THEN LET i == CHOOSE j \in 1..26 : c \in {Lower[j], Upper[j]}
         IN  {Lower[i], Upper[i]}
    ELSE {c}
LitI(chars) == [i \in 1..Len(chars) |-> Item(BothCases(chars[i]), 1, 1)]

\* (\d+\.?\d*)
DimBody == <<Item(Digits, 1, -1), Opt("."), Item(Digits, 0, -1)>>
Ws == Item(Whitespace, 0, -1)
Cross == Item({"x", "X", "×"}, 1, 1)
\* . (any character but a newline), one or more
AnyPlus == [cls |-> {"\n"}, neg |-> TRUE, min |-> 1, max |-> -1]

\* helpers.py patterns of extract_dimensions, with the item ranges of the
\* groups 1 and 2
dimension_patterns == <<
    [p |-> DimBody \o <<Ws, Cross, Ws>> \o DimBody, g1 |-> <<1, 3>>, g2 |-> <<7, 9>>],
    [p |-> LitI(<<"W", "i", "d", "t", "h", ":">>) \o <<Ws>> \o DimBody \o <<AnyPlus>>
           \o LitI(<<"H", "e", "i", "g", "h", "t", ":">>) \o <<Ws>> \o DimBody,
     g1 |-> <<8, 10>>, g2 |-> <<20, 22>>],
    [p |-> DimBody \o <<Ws, Item({"w", "W"}, 1, 1), Ws, Cross, Ws>> \o DimBody
           \o <<Ws, Item({"h", "H"}, 1, 1)>>,
     g1 |-> <<1, 3>>, g2 |-> <<9, 11>>],
    [p |-> DimBody \o <<Opt("\""), Ws, Cross, Ws>> \o DimBody \o <<Opt("\"")>>,
     g1 |-> <<1, 3>>, g2 |-> <<8, 10>>] >>

NoDimensions == [width |-> None, height |-> None]

RECURSIVE DimensionLoop_groups_swapped(_, _)
DimensionLoop_groups_swapped(text, k) ==
    IF k > Len(dimension_patterns) THEN NoDimensions
    ELSE LET pat == dimension_patterns[k]
             b == ReSearch(pat.p, text)
         IN  IF b # <<>>
             THEN [width |-> DecimalVal(Group(text, b, pat.g2[1], pat.g2[2])),
                   height |-> DecimalVal(Group(text, b, pat.g1[1], pat.g1[2]))]
             ELSE DimensionLoop_groups_swapped(text, k + 1)

\* float() of a DimBody match never raises, so the first matching pattern
\* decides
RECURSIVE DimensionLoop(_, _)
DimensionLoop(text, k) ==
    IF k > Len(dimension_patterns) THEN NoDimensions
    ELSE LET pat == dimension_patterns[k]
             b == ReSearch(pat.p, text)
         IN  IF b # <<>>
             THEN [width |-> DecimalVal(Group(text, b, pat.g1[1], pat.g1[2])),
                   height |-> DecimalVal(Group(text, b, pat.g2[1], pat.g2[2]))]
             ELSE DimensionLoop(text, k + 1)

extract_dimensions(text) == DimensionLoop(text, 1)

\* re.sub(r'\s+', ' ', text)
RECURSIVE CollapseWhitespace(_)
CollapseWhitespace(text) ==
    IF text = <<>> THEN <<>>
    ELSE IF Head(text) \in Whitespace
         THEN <<" ">> \o CollapseWhitespace(
                  SubSeq(text, 1 + RunLen(Item(Whitespace, 0, -1), text, 1), Len(text)))
         ELSE <<Head(text)>> \o CollapseWhitespace(Tail(text))

\* str.strip()
RECURSIVE Strip(_)
Strip(text) ==
    IF text = <<>> THEN <<>>
    ELSE IF Head(text) \in Whitespace THEN Strip(Tail(text))
    ELSE IF text[Len(text)] \in Whitespace THEN Strip(SubSeq(text, 1, Len(text) - 1))
    ELSE text

\* [^\w\s\-\.\$\(\)\/]
Whitelist == WordChars \cup Whitespace \cup {"-", ".", "$", "(", ")", "/"}

clean_text_not_collapsed(text) ==
    IF text = <<>> THEN <<>>
    ELSE SelectSeq(Strip(text), LAMBDA c : c \in Whitelist)

clean_text(text) ==
    IF text = <<>> THEN <<>>
    ELSE SelectSeq(Strip(CollapseWhitespace(text)), LAMBDA c : c \in Whitelist)

\* ------------------------------------------------------------------------
\* Bounds of the model
\* ------------------------------------------------------------------------
\* configurations of one run that the model iterates over
MaxConfigs == 2
\* calls of scrape_all_products on one scraper object
MaxRuns == 2

\* ------------------------------------------------------------------------
\* Strategies.  "Supplier_1" is Supplier1Scraper; "Custom" stands for any
\* other subclass of BaseScraper, whose hooks may return anything their
\* signatures allow and may raise.
\* ------------------------------------------------------------------------
Strategies == {"Supplier_1", "Custom"}

W_windows == <<"w", "i", "n", "d", "o", "w", "s">>
W_doors == <<"d", "o", "o", "r", "s">>
W_vinyl == <<"v", "i", "n", "y", "l">>
W_wood == <<"w", "o", "o", "d">>
W_aluminum == <<"a", "l", "u", "m", "i", "n", "u", "m">>
W_fiberglass == <<"f", "i", "b", "e", "r", "g", "l", "a", "s", "s">>
W_white == <<"w", "h", "i", "t", "e">>
W_brown == <<"b", "r", "o", "w", "n">>
W_black == <<"b", "l", "a", "c", "k">>
W_bronze == <<"b", "r", "o", "n", "z", "e">>

\* BaseScraper.supplier_name as a string
SupplierName(strategy) ==
    IF strategy = "Supplier_1" THEN <<"S", "u", "p", "p", "l", "i", "e", "r", "_", "1">>
    ELSE IF strategy = "Supplier_2" THEN <<"S", "u", "p", "p", "l", "i", "e", "r", "_", "2">>
    ELSE IF strategy = "Supplier_3" THEN <<"S", "u", "p", "p", "l", "i", "e", "r", "_", "3">>
    ELSE <<"C", "u", "s", "t", "o", "m">>

\* Supplier1Scraper.get_product_configurations: the option lists, the four
\* nested loops (product type outermost, color innermost) and the slice
s1_product_types == <<W_windows, W_doors>>
s1_dimensions == <<[width |-> 24, height |-> 36], [width |-> 30, height |-> 48],
                   [width |-> 36, height |-> 60], [width |-> 48, height |-> 72]>>
s1_materials == <<W_vinyl, W_wood, W_aluminum, W_fiberglass>>
s1_colors == <<W_white, W_brown, W_black, W_bronze>>
Supplier1Limit == 50

s1_config(k) ==
    LET c == k % Len(s1_colors)
        m == (k \div Len(s1_colors)) % Len(s1_materials)
        d == (k \div (Len(s1_colors) * Len(s1_materials))) % Len(s1_dimensions)
        pt == k \div (Len(s1_colors) * Len(s1_materials) * Len(s1_dimensions))
    IN  [product_type |-> Str(s1_product_types[pt + 1]),
         width |-> Num(s1_dimensions[d + 1].width, 0),
         height |-> Num(s1_dimensions[d + 1].height, 0),
         material |-> Str(s1_materials[m + 1]),
         color |-> Str(s1_colors[c + 1])]

s1_get_product_configurations ==
    LET all == [k \in 1..(Len(s1_product_types) * Len(s1_dimensions)
                          * Len(s1_materials) * Len(s1_colors)) |-> s1_config(k - 1)]
    IN  SubSeq(all, 1, IF Len(all) < Supplier1Limit THEN Len(all) ELSE Supplier1Limit)

\* the first MaxConfigs elements of a list
Bounded(list) == SubSeq(list, 1, IF Len(list) < MaxConfigs THEN Len(list) ELSE MaxConfigs)

\* configuration lists a Custom subclass returns: of any length up to the
\* bound, of configurations with and without a product_type
CustomConfigs ==
    << [product_type |-> Str(W_windows), width |-> Num(30, 0), material |-> Str(W_vinyl)],
       [width |-> Num(36, 0)] >>
CustomConfigLists ==
    {[k \in 1..n |-> CustomConfigs[1 + ((k - 1) % Len(CustomConfigs))]] : n \in 0..MaxConfigs}

\* results of scrape_single_product and of extract_product_data:
\* None, or a dict
NoResult == [none |-> TRUE, d |-> EmptyDict]
Result(d) == [none |-> FALSE, d |-> d]
\* bool(result): None and {} are falsy
ResultTruthy(r) == ~r.none /\ DOMAIN r.d # {}

\* what a Custom subclass's extract_product_data returns
CustomExtracts ==
    { NoResult, Result(EmptyDict),
      Result([price |-> Num(19999, 2)]),
      Result([price |-> Str(<<"1", "9", "9", ".", "9", "9">>)]),
      Result([price |-> Str(<<"c", "a", "l", "l">>)]) }

\* texts of the page regions Supplier 1 reads (get_element_text: the
\* stripped text, or None when the element is absent or the read fails)
PriceTexts ==
    { None, Str(<<"$", "1", "9", "9", ".", "9", "9">>), Str(<<"$", "0", ".", "0", "0">>),
      Str(<<"c", "a", "l", "l">>) }
DetailTexts ==
    { None, Str(<<"3", "0", "\"", " ", "x", " ", "4", "0", "\"", " ", "v", "i", "n", "y", "l">>) }
SpecTexts == { None, Str(<<"o", "k", "!">>) }

\* "if not product_data.get('price'): return None" of the three suppliers:
\* the record is returned only with a truthy price
price_found_if_key_present(product_data) == "price" \in DOMAIN product_data

price_found_if_not_none(product_data) ==
    "price" \in DOMAIN product_data /\ ~IsNone(product_data["price"])

price_found(product_data) ==
    "price" \in DOMAIN product_data /\ Truthy(product_data["price"])

\* Supplier1Scraper.extract_product_data on the three region texts
s1_extract_product_data(price_text, details_text, specs_text) ==
    LET d0 == EmptyDict
        d1 == IF Truthy(price_text)
              THEN DictSet(d0, "price", extract_price(price_text.s)) ELSE d0
        d2 == IF Truthy(details_text)
              THEN DictUpdate(DictSet(d1, "details", Str(clean_text(details_text.s))),
                              extract_dimensions(details_text.s))
              ELSE d1
        d3 == IF Truthy(specs_text)
              THEN DictSet(d2, "specifications", Str(clean_text(specs_text.s))) ELSE d2
    IN  IF ~price_found(d3) THEN NoResult ELSE Result(d3)

\* ------------------------------------------------------------------------
\* helpers.py: random_delay.  random.uniform(min, max) then time.sleep,
\* which raises ValueError for a negative value.  Times in half seconds.
\* ------------------------------------------------------------------------
DelayOutcomes(min_seconds, max_seconds) ==
    (IF max_seconds > 0 \/ min_seconds >= 0 THEN {"slept"} ELSE {})
    \cup (IF min_seconds < 0 THEN {"raise"} ELSE {})

\* DELAY_BETWEEN_REQUESTS (default 2 s) in half seconds
DelayValues == {-1, 4}

\* ------------------------------------------------------------------------
\* State of one scraper object (BaseScraper and its BrowserManager) and of
\* the call of scrape_all_products in progress
\* ------------------------------------------------------------------------
VARIABLES
    strategy,        \* which subclass the scraper is
    delay,           \* self.delay_between_requests, in half seconds
    pc,              \* position of the call in scrape_all_products
    runs,            \* calls of scrape_all_products started so far
    driver,          \* browser_manager.driver: 0 is None, else a session id
    sessions,        \* ids of the browser sessions that are open
    scraped_data,    \* self.scraped_data
    failed_items,    \* self.failed_items
    configurations,  \* the local list of the call
    idx,             \* 1-based position of the loop in configurations
    product,         \* what scrape_single_product returns for the item
    attempts,        \* attempt number of the retry wrapper for the item
    raised,          \* an exception was raised inside the item's pipeline
    verdict,         \* where the item's pipeline ended
    page_price,      \* the price text the last extraction read (Supplier 1)
    screenshots,     \* screenshots requested during the call
    called,          \* hooks and steps the call has invoked
    outcome,         \* how the try block of the call ended
    ret,             \* the value the call returned
    scraped0,        \* scraped_data when the call started
    failed0          \* failed_items when the call started

\* The helper functions applied to a drawn input
VARIABLES
    h_arg,           \* the dict given to normalize_/validate_product_data
    h_norm,          \* results of applying normalize_product_data repeatedly
    h_valid          \* result of validate_product_data(h_arg), once computed

helperVars == <<h_arg, h_norm, h_valid>>

\* One call of DataHandler.combine_datasets
VARIABLES
    heap,            \* the record dicts, by object identity
    datasets,        \* argument: a list of lists of records (identities)
    supplier_names,  \* argument: a list of names
    c_pc,            \* position of the call
    c_i,             \* 1-based position of the outer loop in datasets
    c_j,             \* 1-based position of the inner loop in the dataset
    combined_data,   \* the local list the call builds and returns
    clock            \* the time datetime.now() reads

combineVars == <<heap, datasets, supplier_names, c_pc, c_i, c_j, combined_data, clock>>

\* One call of a function on drawn arguments
VARIABLES
    f_name,          \* the function called
    f_args,          \* its arguments
    f_pc,            \* "idle", "called" or "returned"
    f_result,        \* what it returned (or the fault it raised)
    f_log            \* what it did on the way: browser interactions, log lines

callVars == <<f_name, f_args, f_pc, f_result, f_log>>

\* One run of the program (main.py), or one direct call of an export writer
VARIABLES
    entry_point,     \* what is run: main with its mode, or an export writer
    main_pc,         \* position of the run
    scraper_index,   \* 1-based position in the list scrapers (0: none yet)
    all_data,        \* the datasets collected, each as the name of the scraper it came from
    main_supplier_names, \* supplier_names of run_all_scrapers
    main_log,        \* faults raised, log lines and steps, in order
    main_result      \* how the run ended: returned, or the fault that escaped

mainVars == <<entry_point, main_pc, scraper_index, all_data, main_supplier_names, main_log,
              main_result>>

orchVars == <<strategy, delay, pc, runs, driver, sessions, scraped_data, failed_items,
              configurations, idx, product, attempts, raised, verdict, page_price,
              screenshots, called, outcome, ret, scraped0, failed0>>

\* retry_on_failure(max_attempts=3) on scrape_single_product
max_attempts == 3

OrchInit ==
    /\ strategy \in Strategies
    /\ delay \in DelayValues
    /\ pc = "idle"
    /\ runs = 0
    /\ driver = 0
    /\ sessions = {}
    /\ scraped_data = <<>>
    /\ failed_items = <<>>
    /\ configurations = <<>>
    /\ idx = 0
    /\ product = NoResult
    /\ attempts = 0
    /\ raised = FALSE
    /\ verdict = "none"
    /\ page_price = None
    /\ screenshots = {}
    /\ called = {}
    /\ outcome = "none"
    /\ ret = <<>>
    /\ scraped0 = <<>>
    /\ failed0 = <<>>

\* BrowserManager.take_screenshot: the request is recorded under the prefix
\* of its file name; save_screenshot may fail (also with driver None), which
\* is caught and logged
take_screenshot_not_requested(shots, kind) == shots

take_screenshot(shots, kind) == shots \cup {kind}

\* BrowserManager.close_browser: quit() ends the session of the driver, if
\* there is a driver; an exception of quit() is caught and logged
close_browser_keeps_session(d, open) == open

close_browser(d, open) == IF d # 0 THEN open \ {d} ELSE open

\* the except clause of scrape_all_products
fatal_screenshot(shots) == take_screenshot(shots, "fatal_error")

\* the value scrape_all_products returns: [] from the return in the login
\* branch, self.scraped_data otherwise
return_value_always_data(how, data) == data

return_value_empty_on_fatal(how, data) ==
    IF how \in {"login_failed", "fatal"} THEN <<>> ELSE data

return_value(how, data) == IF how = "login_failed" THEN <<>> ELSE data

\* lines 109-114: the result goes to one of the two lists
append_result_drops_failure(r, config, sd, fi) ==
    IF ResultTruthy(r) THEN [scraped |-> Append(sd, r.d), failed |-> fi]
    ELSE [scraped |-> sd, failed |-> fi]

append_result(r, config, sd, fi) ==
    IF ResultTruthy(r) THEN [scraped |-> Append(sd, r.d), failed |-> fi]
    ELSE [scraped |-> sd, failed |-> Append(fi, config)]

pipeline_tail_scraped_first(extracted, config, name) ==
    IF ~ResultTruthy(extracted) THEN [r |-> NoResult, verdict |-> "extract_failed"]
    ELSE LET merged == DictSet(DictUpdate(config, extracted.d), "supplier", Str(name))
             normalized_data == normalize_product_data(merged)
         IN  IF validate_product_data(normalized_data)
             THEN [r |-> Result(normalized_data), verdict |-> "ok"]
             ELSE [r |-> NoResult, verdict |-> "invalid"]

\* lines 71-84 of scrape_single_product: merge, normalize, validate
pipeline_tail(extracted, config, name) ==
    IF ~ResultTruthy(extracted) THEN [r |-> NoResult, verdict |-> "extract_failed"]
    ELSE LET merged == DictSet(DictUpdate(extracted.d, config), "supplier", Str(name))
             normalized_data == normalize_product_data(merged)
         IN  IF validate_product_data(normalized_data)
             THEN [r |-> Result(normalized_data), verdict |-> "ok"]
             ELSE [r |-> NoResult, verdict |-> "invalid"]

\* scrape_all_products is called (by main.py, or again by the same caller)
Call ==
    /\ pc \in {"idle", "done"}
    /\ runs < MaxRuns
    /\ runs' = runs + 1
    /\ pc' = "setup"
    /\ outcome' = "running"
    /\ called' = {}
    /\ screenshots' = {}
    /\ configurations' = <<>>
    /\ idx' = 0
    /\ product' = NoResult
    /\ attempts' = 0
    /\ raised' = FALSE
    /\ verdict' = "none"
    /\ page_price' = None
    /\ ret' = <<>>
    /\ scraped0' = scraped_data
    /\ failed0' = failed_items
    \* a summary the caller got after the previous call is out of date
    /\ f_name' = "none"
    /\ f_args' = <<>>
    /\ f_pc' = "idle"
    /\ f_result' = None
    /\ f_log' = <<>>
    /\ UNCHANGED <<helperVars, mainVars, combineVars, strategy, delay, driver, sessions, scraped_data, failed_items>>

Fatal_resumes_loop ==
    /\ screenshots' = fatal_screenshot(screenshots)
    /\ outcome' = "fatal"
    /\ pc' = "loop"

\* an exception reaches the except clause of scrape_all_products
Fatal ==
    /\ screenshots' = fatal_screenshot(screenshots)
    /\ outcome' = "fatal"
    /\ pc' = "cleanup"

\* setup(): start_browser, then navigate_to_url (which returns a flag that
\* setup ignores).  start_browser re-raises: from uc.Chrome (no driver, no
\* session) or from execute_script (the driver is set, its session open).
Setup ==
    /\ pc = "setup"
    /\ called' = called \cup {"setup"}
    /\ \/ /\ driver' = runs
          /\ sessions' = sessions \cup {runs}
          /\ pc' = "login"
          /\ UNCHANGED <<screenshots, outcome>>
       \/ /\ UNCHANGED <<driver, sessions>>
          /\ Fatal
       \/ /\ driver' = runs
          /\ sessions' = sessions \cup {runs}
          /\ Fatal
    /\ UNCHANGED <<helperVars, mainVars, combineVars, callVars, strategy, delay, runs, scraped_data, failed_items, configurations, idx,
                   product, attempts, raised, verdict, page_price, ret, scraped0, failed0>>

\* login(): True or False; the login of Supplier 1 catches every exception
Login ==
    /\ pc = "login"
    /\ called' = called \cup {"login"}
    /\ \/ /\ pc' = "enumerate"
          /\ UNCHANGED <<screenshots, outcome>>
       \/ /\ pc' = "cleanup"
          /\ outcome' = "login_failed"
          /\ UNCHANGED screenshots
       \/ /\ strategy = "Custom"
          /\ Fatal
    /\ UNCHANGED <<helperVars, mainVars, combineVars, callVars, strategy, delay, runs, driver, sessions, scraped_data, failed_items,
                   configurations, idx, product, attempts, raised, verdict, page_price,
                   ret, scraped0, failed0>>

\* get_product_configurations()
Enumerate ==
    /\ pc = "enumerate"
    /\ called' = called \cup {"get_product_configurations"}
    /\ \/ /\ strategy = "Supplier_1"
          /\ configurations' = Bounded(s1_get_product_configurations)
          /\ idx' = 1
          /\ pc' = "loop"
          /\ UNCHANGED <<screenshots, outcome>>
       \/ /\ strategy = "Custom"
          /\ configurations' \in CustomConfigLists
          /\ idx' = 1
          /\ pc' = "loop"
          /\ UNCHANGED <<screenshots, outcome>>
       \/ /\ strategy = "Custom"
          /\ UNCHANGED <<configurations, idx>>
          /\ Fatal
    /\ UNCHANGED <<helperVars, mainVars, combineVars, callVars, strategy, delay, runs, driver, sessions, scraped_data, failed_items,
                   product, attempts, raised, verdict, page_price, ret, scraped0, failed0>>

\* the for loop takes the next configuration and calls the wrapped
\* scrape_single_product: first attempt of the retry wrapper
NextConfiguration ==
    /\ pc = "loop"
    /\ idx <= Len(configurations)
    /\ pc' = "configure"
    /\ attempts' = 1
    /\ raised' = FALSE
    /\ verdict' = "none"
    /\ product' = NoResult
    /\ page_price' = None
    /\ UNCHANGED <<helperVars, mainVars, combineVars, callVars, strategy, delay, runs, driver, sessions, scraped_data, failed_items,
                   configurations, idx, screenshots, called, outcome, ret, scraped0, failed0>>

\* the for loop is exhausted: the try block ends normally
LoopExit ==
    /\ pc = "loop"
    /\ idx > Len(configurations)
    /\ outcome' = "completed"
    /\ pc' = "cleanup"
    /\ UNCHANGED <<helperVars, mainVars, combineVars, callVars, strategy, delay, runs, driver, sessions, scraped_data, failed_items,
                   configurations, idx, product, attempts, raised, verdict, page_price,
                   screenshots, called, ret, scraped0, failed0>>

\* the except clause of scrape_single_product: screenshot, return None.
\* The function returns normally, so the retry wrapper, which calls again
\* only when the call raises, returns that None after the first attempt.
PipelineFault ==
    /\ screenshots' = take_screenshot(screenshots, "error")
    /\ product' = NoResult
    /\ raised' = TRUE
    /\ verdict' = "exception"
    /\ pc' = "record"

\* line 63: configure_product(config)
Configure ==
    /\ pc = "configure"
    /\ called' = called \cup {"configure_product"}
    /\ \/ /\ pc' = "delay"
          /\ UNCHANGED <<product, raised, verdict, screenshots>>
       \/ /\ product' = NoResult
          /\ verdict' = "configure_failed"
          /\ pc' = "record"
          /\ UNCHANGED <<raised, screenshots>>
       \/ /\ strategy = "Custom"
          /\ PipelineFault
    /\ UNCHANGED <<helperVars, mainVars, combineVars, callVars, strategy, delay, runs, driver, sessions, scraped_data, failed_items,
                   configurations, idx, attempts, page_price, outcome, ret, scraped0, failed0>>

\* line 67: random_delay(delay, delay + 1)
Delay ==
    /\ pc = "delay"
    /\ called' = called \cup {"random_delay"}
    /\ \E o \in DelayOutcomes(delay, delay + 2) :
          \/ /\ o = "slept"
             /\ pc' = "extract"
             /\ UNCHANGED <<product, raised, verdict, screenshots>>
          \/ /\ o = "raise"
             /\ PipelineFault
    /\ UNCHANGED <<helperVars, mainVars, combineVars, callVars, strategy, delay, runs, driver, sessions, scraped_data, failed_items,
                   configurations, idx, attempts, page_price, outcome, ret, scraped0, failed0>>

\* lines 69-84: extract_product_data(), then merge, normalize and validate
Extract ==
    /\ pc = "extract"
    /\ called' = called \cup {"extract_product_data"}
    /\ \/ /\ strategy = "Supplier_1"
          /\ \E pt \in PriceTexts, dt \in DetailTexts, st \in SpecTexts :
                LET t == pipeline_tail(s1_extract_product_data(pt, dt, st),
                                       configurations[idx], SupplierName(strategy))
                IN  /\ product' = t.r
                    /\ verdict' = t.verdict
                    /\ page_price' = pt
          /\ pc' = "record"
          /\ UNCHANGED <<raised, screenshots>>
       \/ /\ strategy = "Custom"
          /\ \E x \in CustomExtracts :
                LET t == pipeline_tail(x, configurations[idx], SupplierName(strategy))
                IN  /\ product' = t.r
                    /\ verdict' = t.verdict
          /\ pc' = "record"
          /\ UNCHANGED <<raised, screenshots, page_price>>
       \/ /\ strategy = "Custom"
          /\ PipelineFault
          /\ UNCHANGED page_price
    /\ UNCHANGED <<helperVars, mainVars, combineVars, callVars, strategy, delay, runs, driver, sessions, scraped_data, failed_items,
                   configurations, idx, attempts, outcome, ret, scraped0, failed0>>

\* lines 109-114: the result is appended to scraped_data or the
\* configuration to failed_items
Record ==
    /\ pc = "record"
    /\ LET a == append_result(product, configurations[idx], scraped_data, failed_items)
       IN  /\ scraped_data' = a.scraped
           /\ failed_items' = a.failed
    /\ pc' = "pace"
    /\ UNCHANGED <<helperVars, mainVars, combineVars, callVars, strategy, delay, runs, driver, sessions, configurations, idx, product,
                   attempts, raised, verdict, page_price, screenshots, called, outcome,
                   ret, scraped0, failed0>>

\* line 116: random_delay(delay, delay + 2), outside any inner try; the
\* locals of the item are dead from here on
Pace ==
    /\ pc = "pace"
    /\ product' = NoResult
    /\ attempts' = 0
    /\ raised' = FALSE
    /\ verdict' = "none"
    /\ page_price' = None
    /\ \E o \in DelayOutcomes(delay, delay + 4) :
          \/ /\ o = "slept"
             /\ idx' = idx + 1
             /\ pc' = "loop"
             /\ UNCHANGED <<screenshots, outcome>>
          \/ /\ o = "raise"
             /\ UNCHANGED idx
             /\ Fatal
    /\ UNCHANGED <<helperVars, mainVars, combineVars, callVars, strategy, delay, runs, driver, sessions,
                   scraped_data, failed_items, configurations, called, ret, scraped0,
                   failed0>>

\* the finally clause, cleanup(), and the return
Cleanup ==
    /\ pc = "cleanup"
    /\ called' = called \cup {"cleanup"}
    /\ sessions' = close_browser(driver, sessions)
    /\ ret' = return_value(outcome, scraped_data)
    /\ pc' = "done"
    /\ UNCHANGED <<helperVars, mainVars, combineVars, callVars, strategy, delay, runs, driver, scraped_data, failed_items, configurations,
                   idx, product, attempts, raised, verdict, page_price, screenshots,
                   outcome, scraped0, failed0>>

OrchNext ==
    \/ Call \/ Setup \/ Login \/ Enumerate \/ NextConfiguration \/ LoopExit
    \/ Configure \/ Delay \/ Extract \/ Record \/ Pace \/ Cleanup

\* ------------------------------------------------------------------------
\* The helper functions on drawn inputs
\* ------------------------------------------------------------------------
\* a dict with the given optional entries: an option is a value, or Absent
Absent == [t |-> "absent", m |-> 0, e |-> 0, s |-> <<>>]
DictOf(entries) ==
    [k \in {x \in DOMAIN entries : entries[x] # Absent} |-> entries[k]]

ProductTypeOptions == {Absent, None, Str(W_windows)}
PriceOptions ==
    { Absent, None, Num(19999, 2), Num(0, 0),
      Str(<<"1", "2", ".", "5">>), Str(<<"$", "1", "9", "9", ".", "9", "9">>),
      Str(<<"n", "o", "t", "-", "a", "-", "n", "u", "m", "b", "e", "r">>), Str(<<>>) }
SupplierOptions == {Absent, Str(SupplierName("Supplier_1"))}
DeliveryOptions == {Absent, Str(<<"2", " ", "w", "e", "e", "k", "s">>)}
TypeOptions == {Absent, Str(W_doors)}

HelperInputs ==
    { DictOf([product_type |-> pt, price |-> pr, supplier |-> su,
              delivery_time |-> dl, type |-> ty]) :
        pt \in ProductTypeOptions, pr \in PriceOptions, su \in SupplierOptions,
        dl \in DeliveryOptions, ty \in TypeOptions }

HelperIdle ==
    /\ h_arg = EmptyDict
    /\ h_norm = <<>>
    /\ h_valid = "unset"

HelperInit ==
    /\ h_arg \in HelperInputs
    /\ h_norm = <<>>
    /\ h_valid = "unset"

\* normalize_product_data applied to the input, then to its own result
Normalize ==
    /\ Len(h_norm) < 2
    /\ h_norm' = Append(h_norm, normalize_product_data(
                                    IF h_norm = <<>> THEN h_arg ELSE h_norm[Len(h_norm)]))
    /\ UNCHANGED <<h_arg, h_valid, orchVars, combineVars, mainVars, callVars>>

\* validate_product_data applied to the input
Validate ==
    /\ h_valid = "unset"
    /\ h_valid' = IF validate_product_data(h_arg) THEN "true" ELSE "false"
    /\ UNCHANGED <<h_arg, h_norm, orchVars, combineVars, mainVars, callVars>>

\* ------------------------------------------------------------------------
\* DataHandler.combine_datasets
\* ------------------------------------------------------------------------
MaxObjs == 3
MaxDatasets == 2
MaxTicks == 1

ObjIds == 1..MaxObjs

\* str(n) for n >= 0
RECURSIVE ToStr(_)
ToStr(n) == IF n < 10 THEN <<DigitChars[n + 1]>>
            ELSE ToStr(n \div 10) \o <<DigitChars[(n % 10) + 1]>>

\* datetime.now().isoformat(): a string that the time determines
IsoFormat(time) == Str(<<"T">> \o ToStr(time))

\* the names main.py passes
MainNames == { <<"S", "u", "p", "p", "l", "i", "e", "r", "1">>,
               <<"S", "u", "p", "p", "l", "i", "e", "r", "2">> }

RECURSIVE Flatten(_)
Flatten(lists) == IF lists = <<>> THEN <<>> ELSE Head(lists) \o Flatten(Tail(lists))

Injective(seq) == \A a, b \in 1..Len(seq) : a # b => seq[a] # seq[b]

\* lists of records: every record is an object of its own
ItemLists == {l \in UNION {[1..n -> ObjIds] : n \in 0..MaxObjs} : Injective(l)}
DatasetLists ==
    {ds \in UNION {[1..n -> ItemLists] : n \in 0..MaxDatasets} : Injective(Flatten(ds))}
\* supplier_names: List[str], any strings, the empty one among them
NameTexts == MainNames \cup {<<>>}
NameLists == UNION {[1..n -> NameTexts] : n \in 0..MaxDatasets}

\* the records as scrape_all_products returned them
InitialHeap == [o \in ObjIds |-> [product_type |-> Str(W_windows), price |-> Num(o, 0)]]

CombineIdle ==
    /\ heap = InitialHeap
    /\ datasets = <<>>
    /\ supplier_names = <<>>
    /\ c_pc = "idle"
    /\ c_i = 0
    /\ c_j = 0
    /\ combined_data = <<>>
    /\ clock = 0

CombineInit ==
    /\ heap = InitialHeap
    /\ datasets \in DatasetLists
    /\ supplier_names \in NameLists
    /\ c_pc = "idle"
    /\ c_i = 0
    /\ c_j = 0
    /\ combined_data = <<>>
    /\ clock = 0

\* line 66: the name of dataset i (0-based, as enumerate counts)
dataset_supplier_name_unnamed_default(names, i) ==
    IF i < Len(names) THEN names[i + 1] ELSE <<>>

dataset_supplier_name(names, i) ==
    IF i < Len(names) THEN names[i + 1]
    ELSE <<"S", "u", "p", "p", "l", "i", "e", "r", "_">> \o ToStr(i + 1)

stamp_item_supplier_only(item, name, time) == DictSet(item, "supplier", Str(name))

\* lines 69-70: the item is stamped in place
stamp_item(item, name, time) ==
    DictSet(DictSet(item, "supplier", Str(name)), "scraped_at", IsoFormat(time))

\* combine_datasets is called: combined_data = [], the outer loop starts
CombineCall ==
    /\ c_pc = "idle"
    /\ c_pc' = "loop"
    /\ c_i' = 1
    /\ c_j' = 1
    /\ combined_data' = <<>>
    /\ UNCHANGED <<heap, datasets, supplier_names, clock, orchVars, helperVars, mainVars, callVars>>

CombineItem_input_untouched ==
    /\ c_pc = "loop"
    /\ c_i <= Len(datasets)
    /\ c_j <= Len(datasets[c_i])
    /\ combined_data' = Append(combined_data, datasets[c_i][c_j])
    /\ c_j' = c_j + 1
    /\ UNCHANGED <<heap, datasets, supplier_names, c_pc, c_i, clock, orchVars, helperVars, mainVars, callVars>>

\* one pass of the inner loop: the item is stamped and appended
CombineItem ==
    /\ c_pc = "loop"
    /\ c_i <= Len(datasets)
    /\ c_j <= Len(datasets[c_i])
    /\ LET item == datasets[c_i][c_j]
       IN  /\ heap' = [heap EXCEPT ![item] =
                          stamp_item(@, dataset_supplier_name(supplier_names, c_i - 1), clock)]
           /\ combined_data' = Append(combined_data, item)
    /\ c_j' = c_j + 1
    /\ UNCHANGED <<datasets, supplier_names, c_pc, c_i, clock, orchVars, helperVars, mainVars, callVars>>

\* the inner loop is exhausted: the outer loop takes the next dataset
CombineNextDataset ==
    /\ c_pc = "loop"
    /\ c_i <= Len(datasets)
    /\ c_j > Len(datasets[c_i])
    /\ c_i' = c_i + 1
    /\ c_j' = 1
    /\ UNCHANGED <<heap, datasets, supplier_names, c_pc, combined_data, clock,
                   orchVars, helperVars, mainVars, callVars>>

\* the outer loop is exhausted: return combined_data
CombineReturn ==
    /\ c_pc = "loop"
    /\ c_i > Len(datasets)
    /\ c_pc' = "done"
    /\ UNCHANGED <<heap, datasets, supplier_names, c_i, c_j, combined_data, clock,
                   orchVars, helperVars, mainVars, callVars>>

\* time passes while the call runs
Tick ==
    /\ c_pc = "loop"
    /\ clock < MaxTicks
    /\ clock' = clock + 1
    /\ UNCHANGED <<heap, datasets, supplier_names, c_pc, c_i, c_j, combined_data,
                   orchVars, helperVars, mainVars, callVars>>

\* ------------------------------------------------------------------------
\* Python floats: IEEE 754 binary64, round to nearest, ties to even.
\* A float is [m, e]: m the significand, a sequence of Precision bits, most
\* significant first, e the exponent of its last bit; its value is m * 2^e.
\* A normal float has a leading 1; zero has no 1; NaN has the empty m.
\* ------------------------------------------------------------------------
Precision == 53

NaN == [m |-> <<>>, e |-> 0]
IsNaN(x) == x.m = <<>>
IsZero(x) == ~IsNaN(x) /\ x.m[1] = 0

Zeros(n) == [i \in 1..n |-> 0]

RECURSIVE BitsOf(_)
BitsOf(n) == IF n = 0 THEN <<>> ELSE BitsOf(n \div 2) \o <<n % 2>>

StripZeros(b) ==
    IF \A i \in 1..Len(b) : b[i] = 0 THEN <<>>
    ELSE SubSeq(b, CHOOSE i \in 1..Len(b) : b[i] = 1 /\ \A j \in 1..(i - 1) : b[j] = 0, Len(b))

\* bit sequences are computed with eight bits at a time
ToLimbs(bits) ==
    LET b == Zeros((8 - (Len(bits) % 8)) % 8) \o bits
    IN  [k \in 1..(Len(b) \div 8) |->
            128 * b[8 * k - 7] + 64 * b[8 * k - 6] + 32 * b[8 * k - 5] + 16 * b[8 * k - 4]
            + 8 * b[8 * k - 3] + 4 * b[8 * k - 2] + 2 * b[8 * k - 1] + b[8 * k]]
ToBits(limbs) ==
    [i \in 1..(8 * Len(limbs)) |-> (limbs[((i - 1) \div 8) + 1] \div (2 ^ (7 - ((i - 1) % 8)))) % 2]

RECURSIVE AddFrom(_, _, _, _)
AddFrom(a, b, i, carry) ==
    IF i = 0 THEN <<carry>>
    ELSE LET t == a[i] + b[i] + carry
         IN  AddFrom(a, b, i - 1, t \div 256) \o <<t % 256>>

\* the sum of two bit sequences of the same length, one bit longer
AddBits(a, b) ==
    LET sum == ToBits(AddFrom(ToLimbs(a), ToLimbs(b), Len(ToLimbs(a)), 0))
    IN  SubSeq(sum, Len(sum) - Len(a), Len(sum))

\* quotient and remainder of a bit sequence by a small positive integer
RECURSIVE DivFrom(_, _, _, _, _)
DivFrom(limbs, d, i, rem, q) ==
    IF i > Len(limbs) THEN [q |-> q, r |-> rem]
    ELSE LET cur == 256 * rem + limbs[i]
         IN  DivFrom(limbs, d, i + 1, cur % d, Append(q, cur \div d))
DivSmall(bits, d) ==
    LET res == DivFrom(ToLimbs(bits), d, 1, 0, <<>>)
    IN  [q |-> ToBits(res.q), r |-> res.r]

\* the float nearest to bits * 2^exp (+ a fraction of the last bit when
\* sticky; then bits is longer than Precision)
RoundBits(bits, sticky, exp) ==
    LET b == StripZeros(bits)
        L == Len(b)
    IN  IF L <= Precision
        THEN [m |-> b \o Zeros(Precision - L), e |-> exp - (Precision - L)]
        ELSE LET keep == SubSeq(b, 1, Precision)
                 rest == sticky \/ \E i \in (Precision + 2)..L : b[i] = 1
                 up == b[Precision + 1] = 1 /\ (rest \/ keep[Precision] = 1)
                 inc == AddBits(keep, Zeros(Precision - 1) \o <<1>>)
             IN  IF ~up THEN [m |-> keep, e |-> exp + L - Precision]
                 ELSE IF inc[1] = 1
                      THEN [m |-> SubSeq(inc, 1, Precision), e |-> exp + L - Precision + 1]
                      ELSE [m |-> Tail(inc), e |-> exp + L - Precision]

RECURSIVE Pow10(_)
Pow10(n) == IF n = 0 THEN 1 ELSE 10 * Pow10(n - 1)

\* the float of a number m * 10^-e (a literal, or float() of its text)
FloatOf(v) ==
    LET d == DivSmall(BitsOf(v.m) \o Zeros(70), Pow10(v.e))
    IN  RoundBits(d.q, d.r # 0, -70)

\* x + y
FAdd(x, y) ==
    LET lo == IF x.e < y.e THEN x.e ELSE y.e
        a == x.m \o Zeros(x.e - lo)
        b == y.m \o Zeros(y.e - lo)
        n == IF Len(a) < Len(b) THEN Len(b) ELSE Len(a)
    IN  RoundBits(AddBits(Zeros(n - Len(a)) \o a, Zeros(n - Len(b)) \o b), FALSE, lo)

\* x / n for a count n
FDiv(x, n) ==
    LET d == DivSmall(x.m \o Zeros(16), n)
    IN  RoundBits(d.q, d.r # 0, x.e - 16)

BitsLess(a, b) ==
    \E i \in 1..Len(a) : a[i] < b[i] /\ \A j \in 1..(i - 1) : a[j] = b[j]

\* x < y and x <= y (comparisons with NaN are false)
FLess(x, y) ==
    /\ ~IsNaN(x) /\ ~IsNaN(y) /\ ~IsZero(y)
    /\ \/ IsZero(x)
       \/ x.e < y.e
       \/ x.e = y.e /\ BitsLess(x.m, y.m)
FLe(x, y) == ~IsNaN(x) /\ ~IsNaN(y) /\ (x = y \/ FLess(x, y))

\* ------------------------------------------------------------------------
\* DataHandler.create_summary_report
\* ------------------------------------------------------------------------
MaxRecords == 3

\* pd.DataFrame(data): the columns are the keys of the records, a cell the
\* record has no key for is missing (as a cell that holds None)
Columns(data) == UNION {DOMAIN data[i] : i \in 1..Len(data)}
Cell(row, col) == IF col \in DOMAIN row THEN row[col] ELSE None
Column(data, col) == [i \in 1..Len(data) |-> Cell(data[i], col)]

\* the cells of a column that are not missing, in row order
Present(column) ==
    LET NotMissing(v) == ~IsNone(v)
    IN  SelectSeq(column, NotMissing)

\* Series.unique().tolist(): the values in the order of first appearance
Unique(column) ==
    LET First(i) == \A j \in 1..(i - 1) : column[j] # column[i]
        firsts == {i \in 1..Len(column) : First(i)}
    IN  [k \in 1..Cardinality(firsts) |->
            column[CHOOSE i \in firsts : Cardinality({j \in firsts : j < i}) = k - 1]]

\* the order of strings, by character (digits before letters)
CharOrder == DigitChars \o <<"T">>
CharRank(c) == CHOOSE i \in 1..Len(CharOrder) : CharOrder[i] = c
StrLess(a, b) ==
    \/ \E i \in 1..Len(a) :
           /\ i <= Len(b)
           /\ CharRank(a[i]) < CharRank(b[i])
           /\ \A j \in 1..(i - 1) : a[j] = b[j]
    \/ Len(a) < Len(b) /\ \A j \in 1..Len(a) : a[j] = b[j]

\* Series.min() and Series.max() of a column of strings
StrMin(column) ==
    LET vals == {Present(column)[i] : i \in 1..Len(Present(column))}
    IN  IF vals = {} THEN None
        ELSE CHOOSE x \in vals : \A y \in vals : x = y \/ StrLess(x.s, y.s)
StrMax(column) ==
    LET vals == {Present(column)[i] : i \in 1..Len(Present(column))}
    IN  IF vals = {} THEN None
        ELSE CHOOSE x \in vals : \A y \in vals : x = y \/ StrLess(y.s, x.s)

\* a column of numbers as float64
Floats(column) == [i \in 1..Len(Present(column)) |-> FloatOf(Present(column)[i])]

\* Series.min(), max(), mean(), median(): missing cells are skipped, and
\* the result is NaN when nothing is left
FMin(vals) ==
    IF vals = <<>> THEN NaN
    ELSE CHOOSE x \in {vals[i] : i \in 1..Len(vals)} : \A j \in 1..Len(vals) : FLe(x, vals[j])
FMax(vals) ==
    IF vals = <<>> THEN NaN
    ELSE CHOOSE x \in {vals[i] : i \in 1..Len(vals)} : \A j \in 1..Len(vals) : FLe(vals[j], x)

RECURSIVE FSum(_, _)
FSum(vals, n) == IF n = 1 THEN vals[1] ELSE FAdd(FSum(vals, n - 1), vals[n])

FMean(vals) ==
    IF vals = <<>> THEN NaN ELSE FDiv(FSum(vals, Len(vals)), Len(vals))

Sorted(vals) ==
    [k \in 1..Len(vals) |->
        vals[CHOOSE i \in 1..Len(vals) :
                 Cardinality({j \in 1..Len(vals) :
                                  FLess(vals[j], vals[i]) \/ (vals[j] = vals[i] /\ j < i)}) = k - 1]]

FMedian_middles_not_halved(vals) ==
    LET n == Len(vals)
        sorted == Sorted(vals)
    IN  IF n = 0 THEN NaN
        ELSE IF n % 2 = 1 THEN sorted[(n + 1) \div 2]
        ELSE FAdd(sorted[n \div 2], sorted[(n \div 2) + 1])

FMedian(vals) ==
    LET n == Len(vals)
        sorted == Sorted(vals)
    IN  IF n = 0 THEN NaN
        ELSE IF n % 2 = 1 THEN sorted[(n + 1) \div 2]
        ELSE FDiv(FAdd(sorted[n \div 2], sorted[(n \div 2) + 1]), 2)

\* Series.value_counts().to_dict()
ValueCounts(column) ==
    [v \in {Present(column)[i] : i \in 1..Len(Present(column))} |->
        Cardinality({i \in 1..Len(column) : column[i] = v})]

total_products(data) == Len(data)

create_summary_report(data) ==
    LET summary ==
            [total_products |-> total_products(data),
             suppliers |-> IF "supplier" \in Columns(data)
                           THEN Unique(Column(data, "supplier")) ELSE <<>>,
             date_range |->
                 [start |-> IF "scraped_at" \in Columns(data)
                            THEN StrMin(Column(data, "scraped_at")) ELSE None,
                  end |-> IF "scraped_at" \in Columns(data)
                          THEN StrMax(Column(data, "scraped_at")) ELSE None]]
        prices == Floats(Column(data, "price"))
        price_part ==
            IF "price" \in Columns(data)
            THEN [price_analysis |->
                     [min_price |-> FMin(prices), max_price |-> FMax(prices),
                      avg_price |-> FMean(prices), median_price |-> FMedian(prices)]]
            ELSE EmptyDict
        types_part ==
            IF "product_type" \in Columns(data)
            THEN [product_types |-> ValueCounts(Column(data, "product_type"))]
            ELSE EmptyDict
    IN  DictUpdate(DictUpdate(summary, price_part), types_part)

\* records as combine_datasets leaves them, and one that lost its price
SummaryRecords ==
    { [product_type |-> Str(W_windows), price |-> Num(1, 1),
       supplier |-> Str(<<"S", "1">>), scraped_at |-> IsoFormat(0)],
      [product_type |-> Str(W_windows), price |-> Num(19999, 2),
       supplier |-> Str(<<"S", "2">>), scraped_at |-> IsoFormat(1)],
      [product_type |-> Str(W_doors), price |-> Num(255, 1),
       supplier |-> Str(<<"S", "1">>), scraped_at |-> IsoFormat(10)],
      [product_type |-> Str(W_doors),
       supplier |-> Str(<<"S", "2">>), scraped_at |-> IsoFormat(2)] }

SummaryInit ==
    /\ f_name = "create_summary_report"
    /\ f_args \in UNION {[1..n -> SummaryRecords] : n \in 0..MaxRecords}
    /\ f_pc = "called"
    /\ f_result = None
    /\ f_log = <<>>

CreateSummaryReport ==
    /\ f_name = "create_summary_report"
    /\ f_pc = "called"
    /\ f_result' = create_summary_report(f_args)
    /\ f_pc' = "returned"
    /\ UNCHANGED <<f_name, f_args, f_log, orchVars, helperVars, mainVars, combineVars>>

\* ------------------------------------------------------------------------
\* helpers.py functions on drawn texts
\* ------------------------------------------------------------------------
MaxPriceLen == 4

\* all texts over an alphabet, up to a length
Texts(alphabet, maxLen) == UNION {[1..n -> alphabet] : n \in 0..maxLen}

PriceAlphabet == {"1", "5", ".", ",", "$", " "}
PriceExamples ==
    { <<"P", "r", "i", "c", "e", ":", " ", "$", "1", ",", "2", "3", "4", ".", "5", "0">>,
      <<"P", "r", "i", "c", "e", ":", " ", "$", "5">>,
      <<"C", "o", "s", "t", ":", "1", "2", ".", "5">>,
      <<"C", "o", "s", "t", ":", " ", "5">>,
      <<"1", "9", ".", "9", "9", " ", "$">>,
      <<"c", "a", "l", "l">> }

ExtractPriceInit ==
    /\ f_name = "extract_price"
    /\ f_args \in Texts(PriceAlphabet, MaxPriceLen) \cup PriceExamples
    /\ f_pc = "called"
    /\ f_result = None
    /\ f_log = <<>>

ExtractPrice ==
    /\ f_name = "extract_price"
    /\ f_pc = "called"
    /\ f_result' = extract_price(f_args)
    /\ f_pc' = "returned"
    /\ UNCHANGED <<f_name, f_args, f_log, orchVars, helperVars, mainVars, combineVars>>

MaxDimLen == 4

DimAlphabet == {"3", ".", "x", " ", "\"", "W", "H"}
DimExamples ==
    { <<"3", "0", "\"", " ", "x", " ", "4", "0", "\"", " ", "v", "i", "n", "y", "l">>,
      <<"3", "0", " ", "W", " ", "x", " ", "4", "0", " ", "H">>,
      <<"3", "0", " ", "w", " ", "X", " ", "4", "0">>,
      <<"3", "0", " ", "i", "n", " ", "x", " ", "4", "0", " ", "i", "n">>,
      <<"2", "4", "X", "3", "6">>,
      <<"1", "0", ".", "5", " ", "×", " ", "2", "0", ".", "2", "5">>,
      <<"W", "i", "d", "t", "h", ":", " ", "3", "0", " ", "i", "n", ",", " ",
        "h", "e", "i", "g", "h", "t", ":", "4", "0">>,
      <<"W", "i", "d", "t", "h", ":", "3", "0", "H", "e", "i", "g", "h", "t", ":", "4", "0">>,
      <<"v", "i", "n", "y", "l">> }

ExtractDimensionsInit ==
    /\ f_name = "extract_dimensions"
    /\ f_args \in Texts(DimAlphabet, MaxDimLen) \cup DimExamples
    /\ f_pc = "called"
    /\ f_result = None
    /\ f_log = <<>>

ExtractDimensions ==
    /\ f_name = "extract_dimensions"
    /\ f_pc = "called"
    /\ f_result' = extract_dimensions(f_args)
    /\ f_pc' = "returned"
    /\ UNCHANGED <<f_name, f_args, f_log, orchVars, helperVars, mainVars, combineVars>>

\* ------------------------------------------------------------------------
\* BrowserManager: the operations on page elements.
\* The page and the driver are the environment: whether the element of a
\* locator appears within the timeout, and whether an interaction with it
\* succeeds, is drawn at the step that asks.
\* ------------------------------------------------------------------------
WaitOperations == {"wait_for_element", "wait_for_clickable"}
SafeOperations == {"safe_click", "safe_send_keys", "get_element_text", "get_element_attribute"}

\* the locators of the price region and of the login button of Supplier 1
Locators == {"price-display", "login-button"}
\* what element.text may hold, and what element.get_attribute may return
ElementTexts == { <<>>, <<" ", "$", "1", "9", "9", ".", "9", "9", "\n">> }
AttributeValues == { None, Str(<<"4", "8">>) }
KeysTexts == { <<"u", "s", "e", "r">> }

\* the arguments of a call, by operation
BrowserArguments(operation) ==
    IF operation = "safe_send_keys"
    THEN {[locator |-> l, text |-> t, clear_first |-> c] :
              l \in Locators, t \in KeysTexts, c \in BOOLEAN}
    ELSE IF operation = "get_element_attribute"
    THEN {[locator |-> l, attribute |-> a] : l \in Locators, a \in {"value", "href"}}
    ELSE IF operation \in {"safe_click"} \cup WaitOperations
    THEN {[locator |-> l, timeout |-> t] : l \in Locators, t \in {"default", "10"}}
    ELSE {[locator |-> l] : l \in Locators}

\* what WebDriverWait(...).until(...) does: it returns the element, raises
\* TimeoutException when the condition stays false, or lets an exception of
\* the driver through
WaitOutcomes == {"element", "TimeoutException", "WebDriverException"}

\* the exceptions a wait_for_* operation catches (except TimeoutException)
wait_catches(exception) == exception = "TimeoutException"

safe_catches_timeout_only(exception) == exception = "TimeoutException"

\* the exceptions a safe operation catches (except Exception)
safe_catches(exception) == TRUE

\* the value a safe operation returns when it found no element or caught an
\* exception
failure_value(operation) ==
    IF operation \in {"safe_click", "safe_send_keys"} THEN [t |-> "bool", v |-> FALSE]
    ELSE [t |-> "value", v |-> None]
Returned(v) == [t |-> "value", v |-> v]
ReturnedBool(b) == [t |-> "bool", v |-> b]
Raised(exception) == [t |-> "raised", v |-> exception]
Element(locator) == [t |-> "element", v |-> locator]

\* an exception reaches the handler of the operation
Handle(operation, exception, where) ==
    IF operation \in SafeOperations /\ safe_catches(exception)
    THEN /\ f_result' = failure_value(operation)
         /\ f_pc' = "returned"
         /\ f_log' = f_log \o <<where, "log.error">>
    ELSE /\ f_result' = Raised(exception)
         /\ f_pc' = "raised"
         /\ f_log' = Append(f_log, where)

\* wait_for_element / wait_for_clickable, called directly or by a safe
\* operation (safe_click waits for a clickable element, the others for a
\* present one)
WaitFor ==
    /\ f_name \in WaitOperations \cup SafeOperations
    /\ f_pc = "called"
    /\ \E waited \in WaitOutcomes :
        IF waited = "element"
        THEN IF f_name \in WaitOperations
             THEN /\ f_result' = Element(f_args.locator)
                  /\ f_pc' = "returned"
                  /\ f_log' = Append(f_log, "wait")
             ELSE /\ f_pc' = "element"
                  /\ f_log' = Append(f_log, "wait")
                  /\ UNCHANGED f_result
        ELSE IF wait_catches(waited)
        THEN \* the wait returns None and the caller takes "if element" as false
             /\ f_result' = IF f_name \in WaitOperations THEN Returned(None)
                            ELSE failure_value(f_name)
             /\ f_pc' = "returned"
             /\ f_log' = f_log \o <<"wait:" \o waited, "log.warning">>
        ELSE Handle(f_name, waited, "wait:" \o waited)
    /\ UNCHANGED <<f_name, f_args, orchVars, helperVars, mainVars, combineVars>>

\* element.clear() of safe_send_keys when clear_first
ClearElement ==
    /\ f_name = "safe_send_keys"
    /\ f_pc = "element"
    /\ f_args.clear_first
    /\ \/ /\ f_pc' = "cleared"
          /\ f_log' = Append(f_log, "clear")
          /\ UNCHANGED f_result
       \/ Handle(f_name, "WebDriverException", "clear:WebDriverException")
    /\ UNCHANGED <<f_name, f_args, orchVars, helperVars, mainVars, combineVars>>

\* element.send_keys(text)
SendKeys ==
    /\ f_name = "safe_send_keys"
    /\ \/ f_pc = "cleared"
       \/ f_pc = "element" /\ ~f_args.clear_first
    /\ \/ /\ f_result' = ReturnedBool(TRUE)
          /\ f_pc' = "returned"
          /\ f_log' = Append(f_log, "send_keys")
       \/ Handle(f_name, "WebDriverException", "send_keys:WebDriverException")
    /\ UNCHANGED <<f_name, f_args, orchVars, helperVars, mainVars, combineVars>>

\* element.click(), then the pause of one second
Click ==
    /\ f_name = "safe_click"
    /\ f_pc = "element"
    /\ \/ /\ f_result' = ReturnedBool(TRUE)
          /\ f_pc' = "returned"
          /\ f_log' = f_log \o <<"click", "sleep">>
       \/ Handle(f_name, "WebDriverException", "click:WebDriverException")
    /\ UNCHANGED <<f_name, f_args, orchVars, helperVars, mainVars, combineVars>>

\* element.text.strip()
ReadText ==
    /\ f_name = "get_element_text"
    /\ f_pc = "element"
    /\ \/ \E text \in ElementTexts :
              /\ f_result' = Returned(Str(Strip(text)))
              /\ f_pc' = "returned"
              /\ f_log' = Append(f_log, "text")
       \/ Handle(f_name, "WebDriverException", "text:WebDriverException")
    /\ UNCHANGED <<f_name, f_args, orchVars, helperVars, mainVars, combineVars>>

\* element.get_attribute(attribute)
ReadAttribute ==
    /\ f_name = "get_element_attribute"
    /\ f_pc = "element"
    /\ \/ \E value \in AttributeValues :
              /\ f_result' = Returned(value)
              /\ f_pc' = "returned"
              /\ f_log' = Append(f_log, "get_attribute")
       \/ Handle(f_name, "WebDriverException", "get_attribute:WebDriverException")
    /\ UNCHANGED <<f_name, f_args, orchVars, helperVars, mainVars, combineVars>>

BrowserInit ==
    /\ f_name \in WaitOperations \cup SafeOperations
    /\ f_args \in BrowserArguments(f_name)
    /\ f_pc = "called"
    /\ f_result = None
    /\ f_log = <<>>

\* ------------------------------------------------------------------------
\* login() of the three supplier scrapers.  The safe operations of the
\* BrowserManager return True or False and never raise; what they return
\* is the page's choice.
\* ------------------------------------------------------------------------
Suppliers == {"Supplier_1", "Supplier_2", "Supplier_3"}

\* os.getenv of the credentials: unset, set to the empty string, or set
Usernames == { None, Str(<<>>), Str(<<"u", "s", "e", "r">>), Str(<<"a", "d", "m", "i", "n">>) }
Passwords == { None, Str(<<>>), Str(<<"p", "w">>) }

LoginInit ==
    /\ f_name = "login"
    /\ f_args \in [supplier : Suppliers, username : Usernames, password : Passwords]
    /\ f_pc = "called"
    /\ f_result = None
    /\ f_log = <<>>

\* the credentials are missing (not username or not password)
credentials_missing_if_both(username, password) == ~Truthy(username) /\ ~Truthy(password)

credentials_missing(username, password) == ~Truthy(username) \/ ~Truthy(password)

\* login returns
LoginReturns(value, entries) ==
    /\ f_result' = ReturnedBool(value)
    /\ f_pc' = "returned"
    /\ f_log' = f_log \o entries

\* the credentials are read and checked
LoginCheckCredentials ==
    /\ f_name = "login"
    /\ f_pc = "called"
    /\ IF credentials_missing(f_args.username, f_args.password)
       THEN LoginReturns(TRUE, <<"log.info">>)
       ELSE /\ f_pc' = IF f_args.supplier = "Supplier_3" THEN "link" ELSE "username"
            /\ UNCHANGED <<f_result, f_log>>
    /\ UNCHANGED <<f_name, f_args, orchVars, helperVars, mainVars, combineVars>>

\* Supplier 3 opens the login form: wait_for_element, and a click when the
\* link is there
LoginOpenForm ==
    /\ f_name = "login"
    /\ f_pc = "link"
    /\ \/ /\ f_pc' = "username"
          /\ f_log' = f_log \o <<"wait", "click", "sleep">>
          /\ UNCHANGED f_result
       \/ /\ f_pc' = "username"
          /\ f_log' = f_log \o <<"wait:TimeoutException", "log.warning">>
          /\ UNCHANGED f_result
       \/ LoginReturns(FALSE, <<"wait:WebDriverException", "log.error">>)
       \/ LoginReturns(FALSE, <<"wait", "click:WebDriverException", "log.error">>)
    /\ UNCHANGED <<f_name, f_args, orchVars, helperVars, mainVars, combineVars>>

\* safe_send_keys(username_field, username)
LoginTypeUsername ==
    /\ f_name = "login"
    /\ f_pc = "username"
    /\ \/ /\ f_pc' = "password"
          /\ f_log' = f_log \o <<"safe_send_keys:username">>
          /\ UNCHANGED f_result
       \/ LoginReturns(FALSE, <<"safe_send_keys:username">>)
    /\ UNCHANGED <<f_name, f_args, orchVars, helperVars, mainVars, combineVars>>

\* safe_send_keys(password_field, password)
LoginTypePassword ==
    /\ f_name = "login"
    /\ f_pc = "password"
    /\ \/ /\ f_pc' = "submit"
          /\ f_log' = f_log \o <<"safe_send_keys:password">>
          /\ UNCHANGED f_result
       \/ LoginReturns(FALSE, <<"safe_send_keys:password">>)
    /\ UNCHANGED <<f_name, f_args, orchVars, helperVars, mainVars, combineVars>>

\* safe_click(login_button), then the pause; Suppliers 2 and 3 return True
LoginSubmit ==
    /\ f_name = "login"
    /\ f_pc = "submit"
    /\ \/ /\ f_args.supplier = "Supplier_1"
          /\ f_pc' = "redirect"
          /\ f_log' = f_log \o <<"safe_click", "sleep">>
          /\ UNCHANGED f_result
       \/ /\ f_args.supplier # "Supplier_1"
          /\ LoginReturns(TRUE, <<"safe_click", "sleep", "log.info">>)
       \/ LoginReturns(FALSE, <<"safe_click">>)
    /\ UNCHANGED <<f_name, f_args, orchVars, helperVars, mainVars, combineVars>>

\* Supplier 1 reads driver.current_url and looks for "dashboard"
LoginCheckRedirect ==
    /\ f_name = "login"
    /\ f_pc = "redirect"
    /\ \/ LoginReturns(TRUE, <<"current_url", "log.info">>)
       \/ LoginReturns(FALSE, <<"current_url", "log.error">>)
       \/ LoginReturns(FALSE, <<"current_url:WebDriverException", "log.error">>)
    /\ UNCHANGED <<f_name, f_args, orchVars, helperVars, mainVars, combineVars>>


\* ------------------------------------------------------------------------
\* extract_product_data() of the three supplier scrapers on what the
\* regions of the page hold.  A region read through get_element_text is
\* None or its text; one read through wait_for_element and .text, or
\* through driver.find_elements, is None (no element), its text, or Fault
\* when the driver raises.
\* ------------------------------------------------------------------------
Fault == [t |-> "raise", m |-> 0, e |-> 0, s |-> <<>>]

\* '\n' in text
HasNewline(text) == \E i \in 1..Len(text) : text[i] = "\n"

\* text.split('\n')[0]
FirstLine(text) ==
    IF HasNewline(text)
    THEN SubSeq(text, 1, (CHOOSE i \in 1..Len(text) :
                            /\ text[i] = "\n"
                            /\ \A j \in 1..(i - 1) : text[j] # "\n") - 1)
    ELSE text

\* Supplier2Scraper.extract_product_data
s2_extract_product_data(price_element, summary_text, features_text, lead_time_element) ==
    IF price_element = Fault \/ lead_time_element = Fault THEN NoResult
    ELSE
    LET d0 == EmptyDict
        d1 == IF price_element # None
              THEN DictSet(d0, "price", extract_price(price_element.s)) ELSE d0
        d2 == IF Truthy(summary_text)
              THEN DictUpdate(DictSet(d1, "summary", Str(clean_text(summary_text.s))),
                              extract_dimensions(summary_text.s))
              ELSE d1
        d3 == IF Truthy(features_text)
              THEN DictSet(d2, "features", Str(clean_text(features_text.s))) ELSE d2
        d4 == IF lead_time_element # None
              THEN DictSet(d3, "delivery_info", lead_time_element) ELSE d3
    IN  IF ~price_found(d4) THEN NoResult ELSE Result(d4)

\* Supplier3Scraper.extract_product_data
s3_extract_product_data(total_price_element, breakdown_element, specs_text, warranty_text, installation_elements) ==
    IF Fault \in {total_price_element, breakdown_element, installation_elements}
    THEN NoResult
    ELSE
    LET d0 == EmptyDict
        d1 == IF total_price_element # None
              THEN DictSet(d0, "price", extract_price(total_price_element.s)) ELSE d0
        base_price == IF breakdown_element # None /\ HasNewline(breakdown_element.s)
                      THEN extract_price(FirstLine(breakdown_element.s)) ELSE None
        d2 == IF breakdown_element # None
              THEN LET b == DictSet(d1, "price_breakdown",
                                    Str(clean_text(breakdown_element.s)))
                   IN  IF Truthy(base_price) THEN DictSet(b, "base_price", base_price) ELSE b
              ELSE d1
        d3 == IF Truthy(specs_text)
              THEN DictUpdate(DictSet(d2, "specifications", Str(clean_text(specs_text.s))),
                              extract_dimensions(specs_text.s))
              ELSE d2
        d4 == IF Truthy(warranty_text)
              THEN DictSet(d3, "warranty", Str(clean_text(warranty_text.s))) ELSE d3
        d5 == IF installation_elements # None
              THEN DictSet(d4, "installation_info", installation_elements) ELSE d4
    IN  IF ~price_found(d5) THEN NoResult ELSE Result(d5)

\* what the regions of a product page hold
PriceElements == PriceTexts \cup {Str(<<>>), Fault}
BreakdownElements ==
    { None, Fault,
      Str(<<"B", "a", "s", "e", " ", "$", "1", "0", "0", "\n", "T", "r", "i", "m">>),
      Str(<<"$", "1", "0", "0">>) }
FoundElements == { None, Fault, Str(<<"L", "a", "b", "o", "r">>) }

\* the regions each scraper reads; the others stay None
PageRegions(supplier) ==
    IF supplier = "Supplier_1"
    THEN [supplier : {supplier}, price : PriceTexts, main : DetailTexts,
          extra : SpecTexts, breakdown : {None}, found : {None}]
    ELSE IF supplier = "Supplier_2"
    THEN [supplier : {supplier}, price : PriceElements, main : DetailTexts,
          extra : SpecTexts, breakdown : {None}, found : FoundElements]
    ELSE [supplier : {supplier}, price : PriceElements, main : DetailTexts,
          extra : SpecTexts, breakdown : BreakdownElements, found : FoundElements]

ExtractProductDataInit ==
    /\ f_name = "extract_product_data"
    /\ f_args \in UNION {PageRegions(s) : s \in Suppliers}
    /\ f_pc = "called"
    /\ f_result = None
    /\ f_log = <<>>

\* the hook runs on the page
ExtractProductData ==
    /\ f_name = "extract_product_data"
    /\ f_pc = "called"
    /\ f_result' =
          IF f_args.supplier = "Supplier_1"
          THEN s1_extract_product_data(f_args.price, f_args.main, f_args.extra)
          ELSE IF f_args.supplier = "Supplier_2"
          THEN s2_extract_product_data(f_args.price, f_args.main, f_args.extra, f_args.found)
          ELSE s3_extract_product_data(f_args.price, f_args.breakdown, f_args.main,
                                       f_args.extra, f_args.found)
    /\ f_pc' = "returned"
    /\ UNCHANGED <<f_name, f_args, f_log, orchVars, helperVars, mainVars, combineVars>>


\* ------------------------------------------------------------------------
\* BaseScraper.get_summary
\* ------------------------------------------------------------------------
RECURSIVE MulFrom(_, _, _, _)
MulFrom(limbs, n, i, carry) ==
    IF i = 0 THEN <<carry>>
    ELSE LET t == limbs[i] * n + carry
         IN  MulFrom(limbs, n, i - 1, t \div 256) \o <<t % 256>>

\* the product of a bit sequence and a positive integer below 256
MulSmall(bits, n) == ToBits(MulFrom(ToLimbs(bits), n, Len(ToLimbs(bits)), 0))

\* x * n for an integer n
FMul(x, n) == RoundBits(MulSmall(x.m, n), FALSE, x.e)

\* a / n for integers a >= 0 and n > 0 (true division)
TrueDiv(a, n) ==
    LET d == DivSmall(BitsOf(a) \o Zeros(70), n)
    IN  RoundBits(d.q, d.r # 0, -70)

\* line 151: the share of the scraped configurations in percent, 0 when
\* nothing was scraped and nothing failed
success_rate_of_failed(total_scraped, total_failed) ==
    IF total_scraped + total_failed > 0
    THEN FMul(TrueDiv(total_failed, total_scraped + total_failed), 100)
    ELSE TrueDiv(0, 1)

success_rate(total_scraped, total_failed) ==
    IF total_scraped + total_failed > 0
    THEN FMul(TrueDiv(total_scraped, total_scraped + total_failed), 100)
    ELSE TrueDiv(0, 1)

get_summary(name, sd, fi) ==
    [supplier |-> name,
     total_scraped |-> Len(sd),
     total_failed |-> Len(fi),
     success_rate |-> success_rate(Len(sd), Len(fi)),
     failed_configurations |-> fi]

\* the caller asks for the summary after a call of scrape_all_products
GetSummary ==
    /\ pc = "done"
    /\ f_pc = "idle"
    /\ f_name' = "get_summary"
    /\ f_result' = get_summary(SupplierName(strategy), scraped_data, failed_items)
    /\ f_pc' = "returned"
    /\ UNCHANGED <<f_args, f_log, orchVars, helperVars, mainVars, combineVars>>


\* ------------------------------------------------------------------------
\* main.py: main(), run_single_scraper, run_all_scrapers,
\* analyze_existing_data, and the export writers of DataHandler.
\* Whether a step that touches the file system or the environment succeeds
\* is the environment's choice, drawn at the step.
\* ------------------------------------------------------------------------
Mains == {"main:all", "main:single", "main:analyze"}
Writers == {"save_to_excel", "save_to_csv", "save_to_json"}

scrapers_reversed == <<"Supplier3", "Supplier2", "Supplier1">>

\* lines 69-73 of run_all_scrapers (the keys of run_single_scraper, 29-33)
scrapers == <<"Supplier1", "Supplier2", "Supplier3">>

\* the class of a supplier: Supplier1Scraper, or another subclass of
\* BaseScraper
scraper_class(supplier_name) ==
    IF supplier_name = "Supplier1" THEN "Supplier_1" ELSE "Custom"

Event(kind, at) == [kind |-> kind, at |-> at]
NotEnded == [how |-> "none", by |-> "none"]
Ended(value) == [how |-> "returned", by |-> value]
Escaped(origin) == [how |-> "raised", by |-> origin]

writer_steps_fault_swallowed(writer, fault) ==
    IF fault
    THEN <<Event("fault", writer), Event("log.error", writer)>>
    ELSE <<Event("log.info", writer)>>

\* an export writer: the file is written and the path returned, or the
\* exception is logged and raised again
writer_steps(writer, fault) ==
    IF fault
    THEN <<Event("fault", writer), Event("log.error", writer), Event("raise", writer)>>
    ELSE <<Event("log.info", writer)>>

\* an except clause of main.py catches the exception and logs it
caught(function) == <<Event("caught", function), Event("log.error", function)>>

MainInit ==
    /\ entry_point \in Mains \cup Writers
    /\ main_pc = "start"
    /\ scraper_index \in (IF entry_point = "main:single" THEN 1..Len(scrapers) ELSE {0})
    /\ all_data = <<>>
    /\ main_supplier_names = <<>>
    /\ main_log = <<>>
    /\ main_result = NotEnded

\* a caller calls an export writer
SaveDirect ==
    /\ entry_point \in Writers
    /\ main_pc = "start"
    /\ \E fault \in BOOLEAN :
          /\ main_log' = main_log \o writer_steps(entry_point, fault)
          /\ main_pc' = IF fault THEN "raised" ELSE "returned"
          /\ main_result' = IF fault THEN Escaped(entry_point) ELSE Ended("filepath")
    /\ UNCHANGED <<entry_point, scraper_index, all_data, main_supplier_names, orchVars, helperVars, combineVars, callVars>>

\* main: the arguments are parsed, setup_logging creates the log directory
\* and adds the log file
SetupLogging ==
    /\ entry_point \in Mains
    /\ main_pc = "start"
    /\ \/ /\ main_pc' = IF entry_point = "main:analyze" THEN "analyze" ELSE "construct"
          /\ scraper_index' = IF entry_point = "main:all" THEN 1 ELSE scraper_index
          /\ UNCHANGED <<main_log, main_result>>
       \/ /\ main_pc' = "raised"
          /\ main_log' = Append(main_log, Event("fault", "setup_logging"))
          /\ main_result' = Escaped("setup_logging")
          /\ UNCHANGED scraper_index
    /\ UNCHANGED <<entry_point, all_data, main_supplier_names, orchVars, helperVars, combineVars, callVars>>

\* scraper_class(headless=headless), outside the try statement.  The
\* constructor of BaseScraper creates the export directory and converts
\* MAX_RETRIES and DELAY_BETWEEN_REQUESTS of the environment.
Construct ==
    /\ main_pc = "construct"
    /\ \/ /\ main_pc' = "running"
          /\ main_log' = Append(main_log, Event("run", scrapers[scraper_index]))
          /\ strategy' = scraper_class(scrapers[scraper_index])
          /\ pc' = "idle"
          /\ runs' = 0
          /\ driver' = 0
          /\ scraped_data' = <<>>
          /\ failed_items' = <<>>
          /\ configurations' = <<>>
          /\ idx' = 0
          /\ product' = NoResult
          /\ attempts' = 0
          /\ raised' = FALSE
          /\ verdict' = "none"
          /\ page_price' = None
          /\ screenshots' = {}
          /\ called' = {}
          /\ outcome' = "none"
          /\ ret' = <<>>
          /\ scraped0' = <<>>
          /\ failed0' = <<>>
          /\ UNCHANGED <<delay, sessions, main_result>>
       \/ /\ main_pc' = "raised"
          /\ main_log' = main_log \o <<Event("run", scrapers[scraper_index]),
                                       Event("fault", "construct")>>
          /\ main_result' = Escaped("construct")
          /\ UNCHANGED orchVars
    /\ UNCHANGED <<entry_point, scraper_index, all_data, main_supplier_names, helperVars, combineVars, callVars>>

\* scraper.scrape_all_products(), called once on the new scraper
RunScraper ==
    /\ main_pc = "running"
    /\ \/ pc = "idle" /\ Call
       \/ Setup \/ Login \/ Enumerate \/ NextConfiguration \/ LoopExit
       \/ Configure \/ Delay \/ Extract \/ Record \/ Pace \/ Cleanup

append_supplier_name_always(names, data, supplier_name) == Append(names, supplier_name)

\* line 84, inside "if data:"
append_supplier_name(names, data, supplier_name) ==
    IF Len(data) > 0 THEN Append(names, supplier_name) ELSE names

\* lines 82-93 of run_all_scrapers: the data is collected and exported; an
\* exception is caught and logged, and the loop takes the next supplier
AfterRunAll ==
    /\ entry_point = "main:all"
    /\ main_pc = "running"
    /\ pc = "done"
    /\ all_data' = IF Len(ret) > 0 THEN Append(all_data, scrapers[scraper_index])
                    ELSE all_data
    /\ main_supplier_names' = append_supplier_name(main_supplier_names, ret,
                                                   scrapers[scraper_index])
    /\ IF Len(ret) > 0
       THEN \E fault \in BOOLEAN :
               main_log' = main_log \o writer_steps("save_to_excel", fault)
                                    \o (IF fault THEN caught("run_all_scrapers") ELSE <<>>)
       ELSE main_log' = Append(main_log, Event("log.warning", "run_all_scrapers"))
    /\ IF scraper_index < Len(scrapers)
       THEN /\ scraper_index' = scraper_index + 1
            /\ main_pc' = "construct"
       ELSE /\ main_pc' = "report"
            /\ UNCHANGED scraper_index
    /\ UNCHANGED <<entry_point, main_result, orchVars, helperVars, combineVars, callVars>>

\* lines 46-60 of run_single_scraper
AfterRunSingle ==
    /\ entry_point = "main:single"
    /\ main_pc = "running"
    /\ pc = "done"
    /\ IF Len(ret) > 0
       THEN \E fault \in BOOLEAN :
               /\ main_log' = main_log \o writer_steps("save_to_excel", fault)
                                    \o (IF fault THEN caught("run_single_scraper") ELSE <<>>)
               /\ main_result' = IF fault THEN Ended("None") ELSE Ended("data")
       ELSE /\ main_log' = Append(main_log, Event("log.warning", "run_single_scraper"))
            /\ main_result' = Ended("[]")
    /\ main_pc' = "returned"
    /\ UNCHANGED <<entry_point, scraper_index, all_data, main_supplier_names, orchVars, helperVars, combineVars, callVars>>

\* lines 95-121 of run_all_scrapers, outside any try statement
Report ==
    /\ entry_point = "main:all"
    /\ main_pc = "report"
    /\ IF all_data = <<>>
       THEN /\ main_log' = Append(main_log, Event("log.error", "run_all_scrapers"))
            /\ main_pc' = "returned"
            /\ main_result' = Ended("[]")
       ELSE \/ /\ main_log' = main_log \o writer_steps("save_to_excel", FALSE)
                                       \o writer_steps("save_to_json", FALSE)
               /\ main_pc' = "returned"
               /\ main_result' = Ended("combined_data")
            \/ /\ main_log' = Append(main_log, Event("fault", "DataHandler"))
               /\ main_pc' = "raised"
               /\ main_result' = Escaped("DataHandler")
            \/ /\ main_log' = main_log \o writer_steps("save_to_excel", TRUE)
               /\ main_pc' = "raised"
               /\ main_result' = Escaped("save_to_excel")
            \/ /\ main_log' = main_log \o writer_steps("save_to_excel", FALSE)
                                       \o writer_steps("save_to_json", TRUE)
               /\ main_pc' = "raised"
               /\ main_result' = Escaped("save_to_json")
    /\ UNCHANGED <<entry_point, scraper_index, all_data, main_supplier_names, orchVars, helperVars, combineVars, callVars>>

\* analyze_existing_data: the whole body is inside try, and the except
\* clause logs the exception and does not raise it again
Analyze ==
    /\ entry_point = "main:analyze"
    /\ main_pc = "analyze"
    /\ \/ main_log' = Append(main_log, Event("print", "analyze_existing_data"))
       \/ main_log' = Append(main_log, Event("log.error", "unsupported"))
       \/ main_log' = main_log \o <<Event("fault", "read_file")>>
                               \o caught("analyze_existing_data")
       \/ main_log' = main_log \o <<Event("fault", "analysis")>>
                               \o caught("analyze_existing_data")
    /\ main_pc' = "returned"
    /\ main_result' = Ended("None")
    /\ UNCHANGED <<entry_point, scraper_index, all_data, main_supplier_names, orchVars, helperVars, combineVars, callVars>>


\* ------------------------------------------------------------------------
\* configure_product() of the three supplier scrapers on a drawn page.
\* The page says whether the section link, the inputs and the calculate
\* button respond, whether the controls for material and color are there,
\* and which options they offer.
\* ------------------------------------------------------------------------
\* str.lower() and str.title()
LowerChar(c) ==
    IF \E i \in 1..26 : Upper[i] = c THEN Lower[CHOOSE i \in 1..26 : Upper[i] = c] ELSE c
UpperChar(c) ==
    IF \E i \in 1..26 : Lower[i] = c THEN Upper[CHOOSE i \in 1..26 : Lower[i] = c] ELSE c
str_lower(s) == [i \in 1..Len(s) |-> LowerChar(s[i])]
str_title(s) ==
    [i \in 1..Len(s) |->
        IF i = 1 \/ s[IF i = 1 THEN 1 ELSE i - 1] \notin Letters
        THEN UpperChar(s[i]) ELSE LowerChar(s[i])]

\* a in b, for strings
str_in(a, b) ==
    \E i \in 1..(Len(b) - Len(a) + 1) : SubSeq(b, i, i + Len(a) - 1) = a

\* Select.select_by_visible_text and Select.select_by_value: the option is
\* selected, or NoSuchElementException is raised
has_label(options, text) == \E o \in options : o.label = text
has_value(options, value) == \E o \in options : o.value = value

\* how the choice of an enumerated field ends: "selected", "unset" (the
\* method goes on without a selection) or "raise" (an exception leaves the
\* block and reaches the except clause of configure_product)
choose_option(supplier, control, options, wanted) ==
    IF supplier = "Supplier_3"
    THEN \* lines 125-129: the first option whose value contains the word
         IF control = "raise" THEN "raise"
         ELSE IF control = "found"
                 /\ \E o \in options : str_in(str_lower(wanted), str_lower(o.value))
         THEN "selected" ELSE "unset"
    ELSE IF control = "raise" THEN "raise"
    ELSE IF control = "none" THEN "unset"
    ELSE IF supplier = "Supplier_1"
    THEN \* lines 118-121: by label; in the handler, by value
         IF has_label(options, wanted) \/ has_value(options, wanted)
         THEN "selected" ELSE "raise"
    ELSE \* lines 117-123 of Supplier 2: by label, then by value, then a warning
         IF has_label(options, str_title(wanted)) \/ has_value(options, str_lower(wanted))
         THEN "selected" ELSE "unset"

\* configure_product: the value returned and what was done to the fields
configure_product(supplier, config, page) ==
    LET field(name) ==
            IF name \in DOMAIN config /\ Truthy(config[name])
            THEN choose_option(supplier, page.control[name], page.options[name],
                               config[name].s)
            ELSE "skipped"
        material == field("material")
        color == IF material = "raise" THEN "skipped" ELSE field("color")
        inputs_fail == supplier = "Supplier_1" /\ ~page.inputs
        reached_fields == page.navigate /\ ~inputs_fail
                          /\ (supplier = "Supplier_3" => page.calculator)
        reached_button == reached_fields /\ material # "raise" /\ color # "raise"
    IN  [ok |-> reached_button /\ page.calculate,
         material |-> IF reached_fields THEN material ELSE "skipped",
         color |-> IF reached_fields THEN color ELSE "skipped",
         clicked |-> reached_button]

\* the options of the two controls: with label and value, or none at all
OptionSets(word) ==
    { {}, {[label |-> str_title(word), value |-> str_lower(word)]} }
Controls == {"found", "none", "raise"}
Pages ==
    {[navigate |-> n, inputs |-> i, calculator |-> c, calculate |-> b,
      control |-> [material |-> cm, color |-> cc],
      options |-> [material |-> om, color |-> oc]] :
        n \in BOOLEAN, i \in BOOLEAN, c \in BOOLEAN, b \in BOOLEAN,
        cm \in Controls, cc \in Controls,
        om \in OptionSets(W_vinyl), oc \in OptionSets(W_white)}
ConfigureConfigs ==
    {[product_type |-> Str(W_windows), width |-> Num(30, 0), height |-> Num(48, 0),
      material |-> m, color |-> c] :
        m \in {None, Str(W_vinyl), Str(W_fiberglass)}, c \in {None, Str(W_white), Str(W_bronze)}}

ConfigureProductInit ==
    /\ f_name = "configure_product"
    /\ f_args \in [supplier : Suppliers, config : ConfigureConfigs, page : Pages]
    /\ f_pc = "called"
    /\ f_result = None
    /\ f_log = <<>>

\* the hook runs on the page
ConfigureProduct ==
    /\ f_name = "configure_product"
    /\ f_pc = "called"
    /\ f_result' = configure_product(f_args.supplier, f_args.config, f_args.page)
    /\ f_pc' = "returned"
    /\ UNCHANGED <<f_name, f_args, f_log, orchVars, helperVars, combineVars, mainVars>>


\* ------------------------------------------------------------------------
\* clean_text on drawn texts, and on its own result
\* ------------------------------------------------------------------------
MaxCleanLen == 4
CleanAlphabet == {"a", " ", "\n", "!", "-"}
CleanExamples ==
    { <<"a", " ", "!", " ", "b">>,
      <<"V", "i", "n", "y", "l", " ", "&", " ", "W", "o", "o", "d">>,
      <<"$", "1", "9", "9", ".", "9", "9", "\t", "(", "e", "a", ")">> }

CleanTextInit ==
    /\ f_name = "clean_text"
    /\ f_args \in Texts(CleanAlphabet, MaxCleanLen) \cup CleanExamples
    /\ f_pc = "called"
    /\ f_result = <<>>
    /\ f_log = <<>>

CleanText ==
    /\ f_name = "clean_text"
    /\ f_pc = "called"
    /\ f_result' = clean_text(f_args)
    /\ f_pc' = "returned"
    /\ UNCHANGED <<f_name, f_args, f_log, orchVars, helperVars, mainVars, combineVars>>

\* clean_text(clean_text(t)): the first result is kept in f_log
CleanTextAgain ==
    /\ f_name = "clean_text"
    /\ f_pc = "returned"
    /\ f_log' = <<f_result>>
    /\ f_result' = clean_text(f_result)
    /\ f_pc' = "cleaned_again"
    /\ UNCHANGED <<f_name, f_args, orchVars, helperVars, mainVars, combineVars>>


\* ------------------------------------------------------------------------
\* Lines 71-84 of scrape_single_product on drawn results of
\* extract_product_data and drawn configurations
\* ------------------------------------------------------------------------
\* what the hook of Supplier 1 returns for the drawn region texts
Supplier1Extracts ==
    {s1_extract_product_data(pt, dt, st) :
        pt \in PriceTexts, dt \in DetailTexts, st \in SpecTexts}
\* what the hooks of the three suppliers return for the drawn pages
SupplierExtracts ==
    Supplier1Extracts
    \cup {s2_extract_product_data(p, m, x, f) :
             p \in PriceElements, m \in DetailTexts, x \in SpecTexts, f \in FoundElements}
    \cup {s3_extract_product_data(p, b, m, x, f) :
             p \in PriceElements, b \in BreakdownElements, m \in DetailTexts,
             x \in SpecTexts, f \in FoundElements}
\* what the hook of another subclass may return: records that use the
\* standard keys or their aliases
AliasExtracts ==
    { Result([price |-> Num(19999, 2), type |-> Str(W_doors)]),
      Result([price |-> Num(19999, 2), product_type |-> Str(W_doors),
              material |-> Str(W_wood), color |-> Str(W_bronze)]),
      Result([price |-> Num(19999, 2), category |-> Str(W_doors), w |-> Num(99, 0),
              dimension_height |-> Num(98, 0), frame_material |-> Str(W_wood),
              finish |-> Str(W_bronze)]),
      Result([price |-> Num(19999, 2), width |-> Num(99, 0), height |-> Num(98, 0)]) }
MergeConfigs ==
    {s1_config(0), s1_config(5), s1_config(127),
     [product_type |-> Str(W_windows), width |-> Num(30, 0), material |-> Str(W_vinyl)],
     [product_type |-> Str(W_windows), width |-> None, height |-> Num(48, 0)],
     [width |-> Num(36, 0)]}

MergeInit ==
    /\ f_name = "scrape_single_product"
    /\ f_args \in [extracted : SupplierExtracts \cup CustomExtracts \cup AliasExtracts,
                   config : MergeConfigs, strategy : Strategies]
    /\ f_pc = "extracted"
    /\ f_result = None
    /\ f_log = <<>>

\* product_data.update(config), the supplier, normalize, validate, return
Merge ==
    /\ f_name = "scrape_single_product"
    /\ f_pc = "extracted"
    /\ f_result' = pipeline_tail(f_args.extracted, f_args.config, SupplierName(f_args.strategy))
    /\ f_pc' = "returned"
    /\ UNCHANGED <<f_name, f_args, f_log, orchVars, helperVars, mainVars, combineVars>>


\* ------------------------------------------------------------------------
\* One configuration from the page to the lists: extract_product_data of
\* the scraper, the rest of scrape_single_product, and the branch of
\* scrape_all_products that appends to scraped_data or to failed_items
\* ------------------------------------------------------------------------
\* the hook of the scraper on the regions of the page
extract_product_data(page) ==
    IF page.supplier = "Supplier_1"
    THEN s1_extract_product_data(page.price, page.main, page.extra)
    ELSE IF page.supplier = "Supplier_2"
    THEN s2_extract_product_data(page.price, page.main, page.extra, page.found)
    ELSE s3_extract_product_data(page.price, page.breakdown, page.main, page.extra, page.found)

ScrapeItemInit ==
    /\ f_name = "scrape_single_product"
    /\ f_args \in [page : UNION {PageRegions(s) : s \in Suppliers},
                   config : {s1_config(0), s1_config(127)}]
    /\ f_pc = "configured"
    /\ f_result = NoResult
    /\ f_log = <<>>

\* lines 69-84: extract, merge, normalize, validate
ScrapeItem ==
    /\ f_name = "scrape_single_product"
    /\ f_pc = "configured"
    /\ f_result' = pipeline_tail(extract_product_data(f_args.page), f_args.config,
                                 SupplierName(f_args.page.supplier)).r
    /\ f_log' = <<extract_product_data(f_args.page)>>
    /\ f_pc' = "returned"
    /\ UNCHANGED <<f_name, f_args, orchVars, helperVars, mainVars, combineVars>>

\* lines 109-114, with both lists empty before
RecordItem ==
    /\ f_name = "scrape_single_product"
    /\ f_pc = "returned"
    /\ f_log' = Append(f_log, append_result(f_result, f_args.config, <<>>, <<>>))
    /\ f_pc' = "recorded"
    /\ UNCHANGED <<f_name, f_args, f_result, orchVars, helperVars, mainVars, combineVars>>


\* ------------------------------------------------------------------------
\* get_product_configurations of Suppliers 2 and 3, and the loop of
\* scrape_all_products over the list a scraper returns
\* ------------------------------------------------------------------------
W_composite == <<"c", "o", "m", "p", "o", "s", "i", "t", "e">>
W_gray == <<"g", "r", "a", "y">>
W_beige == <<"b", "e", "i", "g", "e">>
W_single == <<"s", "i", "n", "g", "l", "e">>
W_double == <<"d", "o", "u", "b", "l", "e">>
W_triple == <<"t", "r", "i", "p", "l", "e">>
W_low_e_glass == <<"l", "o", "w", "-", "e", "-", "g", "l", "a", "s", "s">>
W_security_locks == <<"s", "e", "c", "u", "r", "i", "t", "y", "-", "l", "o", "c", "k", "s">>
W_weatherstripping == <<"w", "e", "a", "t", "h", "e", "r", "s", "t", "r", "i", "p", "p", "i", "n", "g">>

\* a list of strings as a value
StrList(words) == [t |-> "list", m |-> 0, e |-> 0, s |-> words]

\* nested for loops, the first level outermost: every level contributes
\* the entries of one of its options to the configuration
RECURSIVE nested_loops(_)
nested_loops(levels) ==
    IF levels = <<>> THEN <<EmptyDict>>
    ELSE LET inner == nested_loops(Tail(levels))
             outer == Head(levels)
         IN  [k \in 1..(Len(outer) * Len(inner)) |->
                 DictUpdate(outer[((k - 1) \div Len(inner)) + 1],
                            inner[((k - 1) % Len(inner)) + 1])]

\* configurations[:limit]
slice(list, limit) == SubSeq(list, 1, IF Len(list) < limit THEN Len(list) ELSE limit)

\* the options of one key, as one-entry dicts
options(key, values) == [i \in 1..Len(values) |-> [k \in {key} |-> values[i]]]
dimension_options(dimensions) ==
    [i \in 1..Len(dimensions) |->
        [width |-> Num(dimensions[i].width, 0), height |-> Num(dimensions[i].height, 0)]]
strings(words) == [i \in 1..Len(words) |-> Str(words[i])]

s2_product_types == <<W_windows, W_doors>>
s2_dimensions == <<[width |-> 30, height |-> 42], [width |-> 36, height |-> 48],
                   [width |-> 42, height |-> 54], [width |-> 48, height |-> 60]>>
s2_materials == <<W_vinyl, W_aluminum, W_wood, W_composite>>
s2_colors == <<W_white, W_bronze, W_black, W_gray>>
s2_glass_types == <<W_single, W_double, W_triple>>
Supplier2Limit == 40

s2_all_configurations ==
    nested_loops(<<options("product_type", strings(s2_product_types)),
                   dimension_options(s2_dimensions),
                   options("material", strings(s2_materials)),
                   options("color", strings(s2_colors)),
                   options("glass_type", strings(s2_glass_types))>>)

s2_get_product_configurations_not_sliced == s2_all_configurations

s2_get_product_configurations == slice(s2_all_configurations, Supplier2Limit)

s3_product_types == <<W_windows, W_doors>>
s3_dimensions == <<[width |-> 32, height |-> 40], [width |-> 36, height |-> 46],
                   [width |-> 40, height |-> 52], [width |-> 44, height |-> 58]>>
s3_materials == <<W_vinyl, W_aluminum, W_wood, W_fiberglass>>
s3_colors == <<W_white, W_beige, W_brown, W_black>>
s3_upgrade_options ==
    <<StrList(<<>>), StrList(<<W_low_e_glass>>), StrList(<<W_security_locks>>),
      StrList(<<W_low_e_glass, W_security_locks>>), StrList(<<W_weatherstripping>>)>>
Supplier3Limit == 35

s3_get_product_configurations ==
    slice(nested_loops(<<options("product_type", strings(s3_product_types)),
                         dimension_options(s3_dimensions),
                         options("material", strings(s3_materials)),
                         options("color", strings(s3_colors)),
                         options("upgrades", s3_upgrade_options)>>),
          Supplier3Limit)

get_product_configurations(supplier) ==
    IF supplier = "Supplier_1" THEN s1_get_product_configurations
    ELSE IF supplier = "Supplier_2" THEN s2_get_product_configurations
    ELSE s3_get_product_configurations

ConfigurationsInit ==
    /\ f_name = "get_product_configurations"
    /\ f_args \in Suppliers
    /\ f_pc = "called"
    /\ f_result = <<>>
    /\ f_log = <<>>

\* line 101 of scrape_all_products: the scraper enumerates
GetProductConfigurations ==
    /\ f_name = "get_product_configurations"
    /\ f_pc = "called"
    /\ f_result' = get_product_configurations(f_args)
    /\ f_pc' = "loop"
    /\ UNCHANGED <<f_name, f_args, f_log, orchVars, helperVars, mainVars, combineVars>>

\* lines 104-107: the loop takes the next configuration and attempts it;
\* f_log holds the configurations attempted so far
AttemptConfiguration ==
    /\ f_name = "get_product_configurations"
    /\ f_pc = "loop"
    /\ Len(f_log) < Len(f_result)
    /\ f_log' = Append(f_log, f_result[Len(f_log) + 1])
    /\ UNCHANGED <<f_name, f_args, f_pc, f_result, orchVars, helperVars, mainVars, combineVars>>

\* ------------------------------------------------------------------------
\* Specifications
\* ------------------------------------------------------------------------
vars == <<orchVars, helperVars, combineVars, callVars, mainVars>>

\* a scraper that is not running (for the specifications of the helpers)
OrchIdle ==
    /\ OrchInit
    /\ strategy = "Supplier_1"
    /\ delay = 4

\* no function call under way
CallIdle ==
    /\ f_name = "none"
    /\ f_args = <<>>
    /\ f_pc = "idle"
    /\ f_result = None
    /\ f_log = <<>>

\* the program is not run
MainIdle ==
    /\ entry_point = "none"
    /\ main_pc = "idle"
    /\ scraper_index = 0
    /\ all_data = <<>>
    /\ main_supplier_names = <<>>
    /\ main_log = <<>>
    /\ main_result = "none"

\* one scraper object and its runs
Init == OrchInit /\ HelperIdle /\ CombineIdle /\ CallIdle /\ MainIdle
Next == OrchNext \/ GetSummary
Spec == Init /\ [][Next]_vars

\* normalize_product_data and validate_product_data on drawn inputs
InitHelpers == OrchIdle /\ HelperInit /\ CombineIdle /\ CallIdle /\ MainIdle
NextHelpers == Normalize \/ Validate
SpecHelpers == InitHelpers /\ [][NextHelpers]_vars

\* combine_datasets on drawn arguments
InitCombine == OrchIdle /\ HelperIdle /\ CombineInit /\ CallIdle /\ MainIdle
NextCombine == CombineCall \/ CombineItem \/ CombineNextDataset \/ CombineReturn \/ Tick
SpecCombine == InitCombine /\ [][NextCombine]_vars

\* create_summary_report on drawn records
InitSummary == OrchIdle /\ HelperIdle /\ CombineIdle /\ SummaryInit /\ MainIdle
NextSummary == CreateSummaryReport
SpecSummary == InitSummary /\ [][NextSummary]_vars

\* extract_price on drawn texts
InitExtractPrice == OrchIdle /\ HelperIdle /\ CombineIdle /\ ExtractPriceInit /\ MainIdle
NextExtractPrice == ExtractPrice
SpecExtractPrice == InitExtractPrice /\ [][NextExtractPrice]_vars

\* extract_dimensions on drawn texts
InitExtractDimensions == OrchIdle /\ HelperIdle /\ CombineIdle /\ ExtractDimensionsInit /\ MainIdle
NextExtractDimensions == ExtractDimensions
SpecExtractDimensions == InitExtractDimensions /\ [][NextExtractDimensions]_vars

\* one operation of the BrowserManager on a drawn page
InitBrowser == OrchIdle /\ HelperIdle /\ CombineIdle /\ BrowserInit /\ MainIdle
NextBrowser == WaitFor \/ ClearElement \/ SendKeys \/ Click \/ ReadText \/ ReadAttribute
SpecBrowser == InitBrowser /\ [][NextBrowser]_vars

\* login() of a supplier with drawn credentials
InitLogin == OrchIdle /\ HelperIdle /\ CombineIdle /\ LoginInit /\ MainIdle
NextLogin ==
    \/ LoginCheckCredentials \/ LoginOpenForm \/ LoginTypeUsername \/ LoginTypePassword
    \/ LoginSubmit \/ LoginCheckRedirect
SpecLogin == InitLogin /\ [][NextLogin]_vars


\* extract_product_data of the three suppliers on drawn pages
InitExtractProductData == OrchIdle /\ HelperIdle /\ CombineIdle /\ ExtractProductDataInit /\ MainIdle
NextExtractProductData == ExtractProductData
SpecExtractProductData == InitExtractProductData /\ [][NextExtractProductData]_vars


\* one run of the program, or one direct call of an export writer
InitMain == OrchInit /\ strategy = "Supplier_1" /\ HelperIdle /\ CombineIdle /\ CallIdle /\ MainInit
NextMain ==
    \/ SaveDirect \/ SetupLogging \/ Construct \/ RunScraper
    \/ AfterRunAll \/ AfterRunSingle \/ Report \/ Analyze
SpecMain == InitMain /\ [][NextMain]_vars


\* configure_product of the three suppliers on drawn pages
InitConfigureProduct == OrchIdle /\ HelperIdle /\ CombineIdle /\ ConfigureProductInit /\ MainIdle
NextConfigureProduct == ConfigureProduct
SpecConfigureProduct == InitConfigureProduct /\ [][NextConfigureProduct]_vars


\* clean_text on drawn texts
InitCleanText == OrchIdle /\ HelperIdle /\ CombineIdle /\ CleanTextInit /\ MainIdle
NextCleanText == CleanText \/ CleanTextAgain
SpecCleanText == InitCleanText /\ [][NextCleanText]_vars


\* the merge of scrape_single_product on drawn records and configurations
InitMerge == OrchIdle /\ HelperIdle /\ CombineIdle /\ MergeInit /\ MainIdle
NextMerge == Merge
SpecMerge == InitMerge /\ [][NextMerge]_vars


\* one configuration from the page to the lists, for the three suppliers
InitScrapeItem == OrchIdle /\ HelperIdle /\ CombineIdle /\ ScrapeItemInit /\ MainIdle
NextScrapeItem == ScrapeItem \/ RecordItem
SpecScrapeItem == InitScrapeItem /\ [][NextScrapeItem]_vars


\* the configurations of the three suppliers and the loop over them
InitConfigurations == OrchIdle /\ HelperIdle /\ CombineIdle /\ ConfigurationsInit /\ MainIdle
NextConfigurations == GetProductConfigurations \/ AttemptConfiguration
SpecConfigurations == InitConfigurations /\ [][NextConfigurations]_vars

\* ------------------------------------------------------------------------
\* Properties
\* ------------------------------------------------------------------------
NewScraped == SubSeq(scraped_data, Len(scraped0) + 1, Len(scraped_data))
NewFailed == SubSeq(failed_items, Len(failed0) + 1, Len(failed_items))

\* C1: every call of scrape_all_products executes cleanup before it returns,
\* whichever way the try block ended, and once it has returned no browser
\* session is open.
C1_SessionReleased ==
    pc = "done" => /\ "cleanup" \in called
                   /\ sessions = {}

\* a call that started a session and ended in the fatal handler has returned
C1_Witness == pc = "done" /\ outcome = "fatal" /\ driver = runs

\* C2: when a step of scrape_single_product raises, the pipeline of the
\* configuration is attempted again, up to 3 attempts, and the
\* configuration is recorded in failed_items only after the last attempt.
C2_RetriedUpToThreeAttempts ==
    (pc = "record" /\ raised) => attempts = max_attempts

\* C3: when login returns False the run is aborted: no configuration is
\* enumerated, configured or extracted, the two lists stay as they were,
\* the call returns an empty list and the browser is closed.
C3_LoginFailureAborts ==
    outcome = "login_failed" =>
        /\ pc \in {"cleanup", "done"}
        /\ called \cap {"get_product_configurations", "configure_product",
                        "extract_product_data"} = {}
        /\ scraped_data = scraped0
        /\ failed_items = failed0
        /\ pc = "done" => /\ ret = <<>>
                          /\ "cleanup" \in called
                          /\ sessions = {}

\* a call on a scraper that already holds records has returned after a
\* failed login
C3_Witness == pc = "done" /\ outcome = "login_failed" /\ scraped_data # <<>>

\* number of configurations of the call whose processing has finished
Finished ==
    IF pc \in {"loop", "configure", "delay", "extract", "record"} THEN idx - 1
    ELSE IF outcome = "completed" THEN idx - 1
    ELSE idx

\* r is a valid normalized record of the configuration: the fields that the
\* configuration sets under their canonical names are those of r
IsRecordOf(r, config) ==
    /\ validate_product_data(r)
    /\ \A k \in DOMAIN config \cap {"width", "height", "material", "color"} :
           k \in DOMAIN r /\ r[k] = config[k]

\* the configurations are split, in order, into records and failures
RECURSIVE IsSplit(_, _, _)
IsSplit(configs, records, failures) ==
    IF configs = <<>> THEN records = <<>> /\ failures = <<>>
    ELSE \/ /\ failures # <<>>
            /\ Head(failures) = Head(configs)
            /\ IsSplit(Tail(configs), records, Tail(failures))
         \/ /\ records # <<>>
            /\ IsRecordOf(Head(records), Head(configs))
            /\ IsSplit(Tail(configs), Tail(records), failures)

\* C4: at every point of a run each finished configuration is in exactly
\* one of scraped_data (as its normalized record) and failed_items (as the
\* parameter set), in configuration order; a run that started with empty
\* lists and ended without a fatal fault leaves as many entries as there
\* are configurations.
C4_ExactlyOneList ==
    /\ Len(scraped_data) >= Len(scraped0)
    /\ Len(failed_items) >= Len(failed0)
    /\ SubSeq(scraped_data, 1, Len(scraped0)) = scraped0
    /\ SubSeq(failed_items, 1, Len(failed0)) = failed0
    /\ Finished <= Len(configurations)
    /\ IsSplit(SubSeq(configurations, 1, Finished), NewScraped, NewFailed)
    /\ (outcome = "completed" /\ scraped0 = <<>> /\ failed0 = <<>>) =>
           /\ Len(scraped_data) + Len(failed_items) = Len(configurations)
           /\ IsSplit(configurations, scraped_data, failed_items)

\* a first run has ended normally with a success and a failure
C4_Witness ==
    /\ pc = "done" /\ outcome = "completed" /\ runs = 1
    /\ scraped_data # <<>> /\ failed_items # <<>>

\* C5: every record in scraped_data has a product_type that is not None and
\* a numeric price.
C5_ScrapedRecordsValid ==
    \A i \in 1..Len(scraped_data) :
        /\ "product_type" \in DOMAIN scraped_data[i]
        /\ ~IsNone(scraped_data[i]["product_type"])
        /\ "price" \in DOMAIN scraped_data[i]
        /\ IsNum(scraped_data[i]["price"])

\* validation has just rejected a record while the success list holds others
C5_Witness == pc = "record" /\ verdict = "invalid" /\ scraped_data # <<>>

\* C6: when configure_product succeeded and the extraction read a parseable
\* price (one extract_price returns a number for), scrape_single_product yields a record with product_type, the
\* parsed price, width, height, material, color and supplier set to the
\* supplier name of the scraper.
C6_RecordCarriesSupplier ==
    ( /\ pc = "record"
      /\ strategy = "Supplier_1"
      /\ verdict \notin {"configure_failed", "exception"}
      /\ IsStr(page_price)
      /\ Truthy(extract_price(page_price.s)) ) =>
        /\ ~product.none
        /\ {"product_type", "price", "width", "height", "material", "color", "supplier"}
               \subseteq DOMAIN product.d
        /\ product.d["price"] = extract_price(page_price.s)
        /\ product.d["supplier"] = Str(SupplierName(strategy))

\* C7: after a fatal fault of the run no further configuration is attempted,
\* the fatal_error screenshot is requested, cleanup runs and the call
\* returns the records collected so far.
C7_FatalFaultHandled ==
    outcome = "fatal" =>
        /\ pc \in {"cleanup", "done"}
        /\ "fatal_error" \in screenshots
        /\ pc = "done" => /\ "cleanup" \in called
                          /\ ret = scraped_data

\* the fault came in the loop, after a record was collected and with
\* configurations left over, and the call has returned
C7_Witness ==
    /\ pc = "done" /\ outcome = "fatal"
    /\ Len(scraped_data) > Len(scraped0)
    /\ idx < Len(configurations)

CanonicalFields ==
    {"product_type", "price", "width", "height", "material", "color", "brand", "model",
     "features", "delivery_time", "supplier"}

\* a Normalized Record: canonical keys, values present, a numeric price
AlreadyCanonical(r) ==
    /\ DOMAIN r \subseteq CanonicalFields
    /\ \A k \in DOMAIN r : ~IsNone(r[k])
    /\ "price" \in DOMAIN r => IsNum(r["price"])

\* C8: on a record with canonical keys normalize_product_data is
\* idempotent, and an already canonical record is returned as it is.
C8_NormalizeIdempotent ==
    DOMAIN h_arg \subseteq CanonicalFields =>
        /\ Len(h_norm) = 2 => h_norm[2] = h_norm[1]
        /\ (Len(h_norm) >= 1 /\ AlreadyCanonical(h_arg)) => h_norm[1] = h_arg

\* C9: validate_product_data returns False exactly for the records whose
\* product_type is missing or None or whose price is missing, None or not
\* coercible to a number.
C9_ValidateExactly ==
    h_valid # "unset" =>
        ( h_valid = "true" <=>
            /\ "product_type" \in DOMAIN h_arg /\ ~IsNone(h_arg["product_type"])
            /\ "price" \in DOMAIN h_arg /\ ~IsNone(h_arg["price"])
            /\ FloatOk(h_arg["price"]) )

\* a record with a product_type and a price text that is no number was
\* rejected
C9_Witness ==
    /\ h_valid = "false"
    /\ "product_type" \in DOMAIN h_arg /\ IsStr(h_arg["product_type"])
    /\ "price" \in DOMAIN h_arg /\ IsStr(h_arg["price"]) /\ h_arg["price"].s # <<>>

\* the conclusion of C10: the records of the datasets in dataset and record
\* order, as many as the datasets hold together, each with a supplier that
\* is a string and not empty
CombinedAll ==
    /\ Len(combined_data) = Len(Flatten(datasets))
    /\ combined_data = Flatten(datasets)
    /\ \A i \in 1..Len(combined_data) :
           /\ "supplier" \in DOMAIN heap[combined_data[i]]
           /\ IsStr(heap[combined_data[i]]["supplier"])
           /\ heap[combined_data[i]]["supplier"].s # <<>>

\* C10: for any datasets and any list of supplier names, also one shorter
\* than the list of datasets, combine_datasets returns the records of the
\* datasets in dataset and record order, as many as the datasets hold
\* together, each with a supplier that is not empty.
C10_CombinedAll == c_pc = "done" => CombinedAll

\* C10 as amended: the same when every supplier name given is not empty
\* (names that are missing get the default "Supplier_<i+1>").
C10_CombinedAllNamed ==
    (c_pc = "done" /\ \A k \in 1..Len(supplier_names) : supplier_names[k] # <<>>)
        => CombinedAll

\* the call has returned the records of a dataset that had no name, the
\* names given being not empty
C10_Witness ==
    /\ c_pc = "done"
    /\ supplier_names # <<>>
    /\ \A k \in 1..Len(supplier_names) : supplier_names[k] # <<>>
    /\ Len(supplier_names) < Len(datasets)
    /\ datasets[1] # <<>>
    /\ datasets[Len(datasets)] # <<>>

\* the argument of create_summary_report: every record has a numeric price
AllCarryPrice ==
    \A i \in 1..Len(f_args) : "price" \in DOMAIN f_args[i] /\ IsNum(f_args[i]["price"])

SummaryReturned == f_name = "create_summary_report" /\ f_pc = "returned"

MedianInRange ==
    /\ "price_analysis" \in DOMAIN f_result
    /\ FLe(f_result["price_analysis"].min_price, f_result["price_analysis"].median_price)
    /\ FLe(f_result["price_analysis"].median_price, f_result["price_analysis"].max_price)

\* C11: for any list of N records that all carry a price,
\* create_summary_report returns total_products = N and a price_analysis
\* with min_price <= median_price <= max_price and
\* min_price <= avg_price <= max_price.
C11_SummaryOrdered ==
    (SummaryReturned /\ AllCarryPrice) =>
        /\ f_result["total_products"] = Len(f_args)
        /\ MedianInRange
        /\ FLe(f_result["price_analysis"].min_price, f_result["price_analysis"].avg_price)
        /\ FLe(f_result["price_analysis"].avg_price, f_result["price_analysis"].max_price)

\* C11 as amended: for a list of N >= 1 records that all carry a numeric
\* price, total_products = N and min_price <= median_price <= max_price
\* (avg_price is the rounded float quotient of the float sum by N).
C11_SummaryMedianOrdered ==
    (SummaryReturned /\ AllCarryPrice /\ Len(f_args) >= 1) =>
        /\ f_result["total_products"] = Len(f_args)
        /\ MedianInRange

\* the report of records with different prices, in an even number
C11_Witness ==
    /\ SummaryReturned /\ AllCarryPrice
    /\ Len(f_args) = 2
    /\ FLess(f_result["price_analysis"].min_price, f_result["price_analysis"].median_price)
    /\ FLess(f_result["price_analysis"].median_price, f_result["price_analysis"].max_price)

\* The supported price patterns, as sets of texts: a price is digits with
\* an optional point before the last digits, two characters at least
AllDigits(t) == \A i \in 1..Len(t) : t[i] \in Digits
IsPrice(t) ==
    \/ Len(t) >= 2 /\ AllDigits(t)
    \/ \E d \in 2..(Len(t) - 1) :
           /\ t[d] = "."
           /\ AllDigits(SubSeq(t, 1, d - 1))
           /\ AllDigits(SubSeq(t, d + 1, Len(t)))
AllSpaces(t) == \A i \in 1..Len(t) : t[i] \in Space
Cuts(t) == 0..Len(t)
\* "$?<price>"
IsPlainCurrency(t) == IsPrice(t) \/ (t # <<>> /\ Head(t) = "$" /\ IsPrice(Tail(t)))
\* "<price>\s*$"
IsTrailingDollar(t) ==
    /\ t # <<>> /\ t[Len(t)] = "$"
    /\ \E c \in Cuts(t) : IsPrice(SubSeq(t, 1, c)) /\ AllSpaces(SubSeq(t, c + 1, Len(t) - 1))
\* "<label>\s*$?<price>"
IsLabelled(label, t) ==
    /\ Len(t) > Len(label) /\ SubSeq(t, 1, Len(label)) = label
    /\ \E c \in Len(label)..Len(t) :
           /\ AllSpaces(SubSeq(t, Len(label) + 1, c))
           /\ IsPlainCurrency(SubSeq(t, c + 1, Len(t)))
IsSupportedPrice(t) ==
    \/ IsPlainCurrency(t)
    \/ IsTrailingDollar(t)
    \/ IsLabelled(<<"P", "r", "i", "c", "e", ":">>, t)
    \/ IsLabelled(<<"C", "o", "s", "t", ":">>, t)

\* the text contains a supported price (thousands separators set aside)
ContainsPrice(text) ==
    LET t == Remove(text, ",")
    IN  \E i \in 1..Len(t) : \E j \in i..Len(t) : IsSupportedPrice(SubSeq(t, i, j))

\* the first price of the text, at its full length, as a number
FirstPriceValue(text) ==
    LET t == Remove(text, ",")
        starts == {i \in 1..Len(t) : \E j \in i..Len(t) : IsPrice(SubSeq(t, i, j))}
        first == CHOOSE i \in starts : \A k \in starts : i <= k
        last == CHOOSE j \in first..Len(t) :
                    /\ IsPrice(SubSeq(t, first, j))
                    /\ \A k \in (j + 1)..Len(t) : ~IsPrice(SubSeq(t, first, k))
    IN  DecimalVal(SubSeq(t, first, last))

ExtractPriceReturned == f_name = "extract_price" /\ f_pc = "returned"

\* C12: for a text that matches a supported price pattern extract_price
\* returns the number the (first) price denotes, thousands separators
\* removed ("Price: $1,234.50" gives 1234.5); for a text that matches no
\* pattern and for the empty text it returns None.
C12_ExtractPrice ==
    ExtractPriceReturned =>
        /\ f_result = (IF ContainsPrice(f_args) THEN FirstPriceValue(f_args) ELSE None)
        /\ ContainsPrice(f_args) => IsNum(f_result)
        /\ (f_args = <<"P", "r", "i", "c", "e", ":", " ", "$", "1", ",", "2", "3", "4", ".", "5", "0">>)
               => f_result = Num(12345, 1)

\* the price of "Price: $1,234.50" has been extracted
C12_Witness ==
    /\ ExtractPriceReturned
    /\ f_args = <<"P", "r", "i", "c", "e", ":", " ", "$", "1", ",", "2", "3", "4", ".", "5", "0">>
    /\ f_result = Num(12345, 1)

\* A number as the dimension patterns read it: digits, then optionally a
\* point and more digits
IsNumber(t) ==
    \E d \in 1..Len(t) :
        /\ AllDigits(SubSeq(t, 1, d))
        /\ d = Len(t) \/ (t[d + 1] = "." /\ AllDigits(SubSeq(t, d + 2, Len(t))))
CrossChars == {"x", "X", "×"}
AllWhitespace(t) == \A i \in 1..Len(t) : t[i] \in Whitespace
\* "\s*[x×]\s*"
IsSeparator(t) ==
    \E k \in 1..Len(t) :
        /\ t[k] \in CrossChars
        /\ \A i \in 1..Len(t) : i # k => t[i] \in Whitespace
IsQuote(m) == m = <<"\"">>
\* a letter marker after a number: "W" after the width, "H" after the height
IsLetterMarker(m, letters) ==
    m # <<>> /\ m[Len(m)] \in letters /\ AllWhitespace(SubSeq(m, 1, Len(m) - 1))

\* the readings of a text as <w><marker> x <h><marker>
Readings(t) ==
    {c \in (1..Len(t)) \X (1..Len(t)) \X (1..Len(t)) \X (1..Len(t)) :
        /\ c[1] <= c[2] /\ c[2] < c[3] /\ c[3] < c[4]
        /\ IsNumber(SubSeq(t, 1, c[1]))
        /\ IsSeparator(SubSeq(t, c[2] + 1, c[3]))
        /\ IsNumber(SubSeq(t, c[3] + 1, c[4]))}
WidthOf(t, c) == SubSeq(t, 1, c[1])
WidthMarker(t, c) == SubSeq(t, c[1] + 1, c[2])
HeightOf(t, c) == SubSeq(t, c[3] + 1, c[4])
HeightMarker(t, c) == SubSeq(t, c[4] + 1, Len(t))
MarkersOptional(t, c) ==
    /\ WidthMarker(t, c) = <<>> \/ IsQuote(WidthMarker(t, c))
           \/ IsLetterMarker(WidthMarker(t, c), {"w", "W"})
    /\ HeightMarker(t, c) = <<>> \/ IsQuote(HeightMarker(t, c))
           \/ IsLetterMarker(HeightMarker(t, c), {"h", "H"})
\* the marker W comes only with the marker H
MarkersPaired(t, c) ==
    /\ MarkersOptional(t, c)
    /\ IsLetterMarker(WidthMarker(t, c), {"w", "W"})
           => IsLetterMarker(HeightMarker(t, c), {"h", "H"})
Reads(t, c) == [width |-> DecimalVal(WidthOf(t, c)), height |-> DecimalVal(HeightOf(t, c))]

\* Some part of the text matches one of the four patterns
OnlyWhitespace(t, i, j) == \A k \in (i + 1)..(j - 1) : t[k] \in Whitespace
EndsNumber(t, e) == t[e] \in Digits \/ (t[e] = "." /\ e > 1 /\ t[e - 1] \in Digits)
ToLower(c) == IF \E i \in 1..26 : Upper[i] = c
              THEN Lower[CHOOSE i \in 1..26 : Upper[i] = c] ELSE c
LabelAt(t, i, label) ==
    /\ i + Len(label) - 1 <= Len(t)
    /\ \A k \in 1..Len(label) : ToLower(t[i + k - 1]) = label[k]
MatchesCross(t) ==
    \E k \in 1..Len(t) :
        /\ t[k] \in CrossChars
        /\ \E i \in 1..(k - 1) :
               /\ EndsNumber(t, i) \/ (t[i] = "\"" /\ i > 1 /\ EndsNumber(t, i - 1))
               /\ OnlyWhitespace(t, i, k)
        /\ \E j \in (k + 1)..Len(t) : t[j] \in Digits /\ OnlyWhitespace(t, k, j)
MatchesWH(t) ==
    \E k \in 1..Len(t) :
        /\ t[k] \in CrossChars
        /\ \E i \in 1..(k - 1) :
               /\ t[i] \in {"w", "W"} /\ OnlyWhitespace(t, i, k)
               /\ \E e \in 1..(i - 1) : EndsNumber(t, e) /\ OnlyWhitespace(t, e, i)
        /\ \E a \in (k + 1)..Len(t) : \E b \in a..Len(t) : \E c \in (b + 1)..Len(t) :
               /\ OnlyWhitespace(t, k, a) /\ IsNumber(SubSeq(t, a, b))
               /\ OnlyWhitespace(t, b, c) /\ t[c] \in {"h", "H"}
MatchesLabels(t) ==
    \E i \in 1..Len(t) : \E a \in (i + 6)..Len(t) : \E j \in (a + 2)..Len(t) :
        /\ LabelAt(t, i, <<"w", "i", "d", "t", "h", ":">>)
        /\ OnlyWhitespace(t, i + 5, a) /\ t[a] \in Digits
        /\ \A k \in (a + 1)..(j - 1) : t[k] # "\n"
        /\ LabelAt(t, j, <<"h", "e", "i", "g", "h", "t", ":">>)
        /\ \E b \in (j + 7)..Len(t) : OnlyWhitespace(t, j + 6, b) /\ t[b] \in Digits
MatchesDimensions(t) == MatchesCross(t) \/ MatchesWH(t) \/ MatchesLabels(t)

ExtractDimensionsReturned == f_name = "extract_dimensions" /\ f_pc = "returned"

UnmatchedGivesNone ==
    /\ ~MatchesDimensions(f_args) => f_result = NoDimensions
    /\ MatchesDimensions(f_args) => IsNum(f_result.width) /\ IsNum(f_result.height)

\* C13: for every text "<w> x <h>", x in either case, each number followed
\* by an optional unit marker or quote, extract_dimensions returns width w
\* and height h as floats; when no pattern matches both are None.
C13_ExtractDimensions ==
    ExtractDimensionsReturned =>
        /\ \A c \in Readings(f_args) : MarkersOptional(f_args, c) => f_result = Reads(f_args, c)
        /\ UnmatchedGivesNone

\* C13 as amended: the same for the markers the patterns know, a quote
\* after either number, or W after the width together with H after the
\* height.
C13_ExtractDimensionsPaired ==
    ExtractDimensionsReturned =>
        /\ \A c \in Readings(f_args) : MarkersPaired(f_args, c) => f_result = Reads(f_args, c)
        /\ UnmatchedGivesNone

\* the dimensions of "30 W x 40 H" have been extracted
C13_Witness ==
    /\ ExtractDimensionsReturned
    /\ f_args = <<"3", "0", " ", "W", " ", "x", " ", "4", "0", " ", "H">>
    /\ f_result = [width |-> Num(30, 0), height |-> Num(40, 0)]

\* the call found no element, or an exception was raised on its way
Logged(entry) == \E i \in 1..Len(f_log) : f_log[i] = entry
ElementMissing == Logged("wait:TimeoutException")
InteractionRaised ==
    \E step \in {"wait", "clear", "send_keys", "click", "text", "get_attribute"} :
        Logged(step \o ":WebDriverException")

\* C14: safe_click, safe_send_keys, get_element_text and
\* get_element_attribute never raise; when the element does not appear
\* within the timeout and when an interaction with it raises they return
\* the same failure value, False for click and type, None for the reads.
C14_SafeOperationsNeverRaise ==
    f_name \in SafeOperations =>
        /\ f_pc # "raised"
        /\ (f_pc = "returned" /\ (ElementMissing \/ InteractionRaised)) =>
               f_result = (IF f_name \in {"safe_click", "safe_send_keys"}
                           THEN ReturnedBool(FALSE) ELSE Returned(None))

\* safe_click has returned after element.click() raised
C14_Witness ==
    /\ f_name = "safe_click"
    /\ f_pc = "returned"
    /\ Logged("click:WebDriverException")
    /\ f_result = ReturnedBool(FALSE)

LogEntries == {"log.info", "log.warning", "log.error"}

\* C15: for each of the three suppliers, when the username or the password
\* is not configured, login returns True and does nothing with the
\* browser: no typing, no click, no wait.
C15_LoginWithoutCredentials ==
    (/\ f_name = "login" /\ f_pc = "returned"
     /\ ~Truthy(f_args.username) \/ ~Truthy(f_args.password)) =>
        /\ f_result = ReturnedBool(TRUE)
        /\ \A i \in 1..Len(f_log) : f_log[i] \in LogEntries

\* the login of Supplier 3 has returned with a username and no password
C15_Witness ==
    /\ f_name = "login" /\ f_pc = "returned"
    /\ f_args.supplier = "Supplier_3"
    /\ Truthy(f_args.username) /\ ~Truthy(f_args.password)
    /\ f_result = ReturnedBool(TRUE)


\* C16: whichever supplier's extract_product_data runs, it returns None when
\* the price region is missing or its text holds no price, and a record it
\* returns carries a numeric price
PriceParsed ==
    /\ IsStr(f_args.price)
    /\ ContainsPrice(f_args.price.s)
ExtractProductDataReturned ==
    /\ f_name = "extract_product_data"
    /\ f_pc = "returned"
C16_PriceRequired ==
    ExtractProductDataReturned =>
        /\ ~PriceParsed => f_result.none
        /\ ~f_result.none =>
              /\ "price" \in DOMAIN f_result.d
              /\ IsNum(f_result.d["price"])
C16_Witness ==
    /\ ExtractProductDataReturned
    /\ f_args.supplier = "Supplier_3"
    /\ ~PriceParsed
    /\ f_args.breakdown # None /\ f_args.breakdown # Fault
    /\ f_args.main # None
    /\ f_result.none


\* C18: the summary asked for after a run counts the two lists, gives the
\* share of the scraped configurations in percent (100 * scraped / (scraped
\* + failed), to the precision of a float) or 0 when both lists are empty,
\* a rate between 0 and 100, and the failed configurations themselves
SummaryGot == pc = "done" /\ f_name = "get_summary" /\ f_pc = "returned"

\* bit sequences as numbers: a <= b
BitsLe(a, b) ==
    LET n == IF Len(a) < Len(b) THEN Len(b) ELSE Len(a)
        x == Zeros(n - Len(a)) \o a
        y == Zeros(n - Len(b)) \o b
    IN  x = y \/ BitsLess(x, y)
\* bit sequences as numbers: a + k for a small k
BitsPlus(a, k) ==
    LET b == BitsOf(k)
        n == IF Len(a) < Len(b) THEN Len(b) ELSE Len(a)
    IN  AddBits(Zeros(n - Len(a)) \o a, Zeros(n - Len(b)) \o b)

\* rate * parts is within two units of the last bit of rate, taken parts
\* times, of 100 * part
IsPercentage(rate, part, parts) ==
    LET scaled == MulSmall(rate.m, parts)
        exact == BitsOf(100 * part) \o Zeros(0 - rate.e)
    IN  /\ rate.e < 0
        /\ BitsLe(scaled, BitsPlus(exact, 2 * parts))
        /\ BitsLe(exact, BitsPlus(scaled, 2 * parts))

Hundred == FloatOf(Num(100, 0))

C18_Summary ==
    SummaryGot =>
        LET s == f_result
            total == s.total_scraped + s.total_failed
        IN  /\ s.total_scraped = Len(scraped_data)
            /\ s.total_failed = Len(failed_items)
            /\ s.failed_configurations = failed_items
            /\ ~IsNaN(s.success_rate)
            /\ IsZero(s.success_rate) \/ FLe(s.success_rate, Hundred)
            /\ IsZero(s.success_rate) <=> s.total_scraped = 0
            /\ s.success_rate = Hundred <=> (s.total_scraped > 0 /\ s.total_failed = 0)
            /\ total > 0 /\ s.total_scraped > 0 =>
                   IsPercentage(s.success_rate, s.total_scraped, total)

\* summaries of a run with nothing attempted, and of one with both scraped
\* and failed configurations whose share is no finite binary fraction
C18_Witness ==
    /\ SummaryGot
    /\ f_result.total_scraped = 1
    /\ f_result.total_failed = 2


\* C19: a call of scrape_all_products moves through Idle, Initializing,
\* Authenticating, Enumerating, Iterating, Finalizing, Done in this order
\* and never back: login comes only after setup, enumeration only after
\* login, the items only after enumeration and before cleanup, and within
\* an item configure, then the delay, then extract
Iterating == {"loop", "configure", "delay", "extract", "record", "pace"}
Phase(p) ==
    IF p = "idle" THEN 0
    ELSE IF p = "setup" THEN 1
    ELSE IF p = "login" THEN 2
    ELSE IF p = "enumerate" THEN 3
    ELSE IF p \in Iterating THEN 4
    ELSE IF p = "cleanup" THEN 5
    ELSE 6
InOrder ==
    /\ pc = "done" => pc' \in {"done", "setup"}
    /\ pc # "done" => Phase(pc') >= Phase(pc)
    /\ (pc # pc' /\ pc' \notin Iterating) => Phase(pc') # Phase(pc)
    /\ pc' = "setup" => pc \in {"idle", "done", "setup"}
    /\ pc' = "login" => pc \in {"setup", "login"}
    /\ pc' = "enumerate" => pc \in {"login", "enumerate"}
    /\ pc' \in Iterating => pc \in Iterating \cup {"enumerate"}
    /\ pc' = "done" => pc \in {"cleanup", "done"}
    /\ pc' = "configure" => pc \in {"loop", "configure"}
    /\ pc' = "delay" => pc \in {"configure", "delay"}
    /\ pc' = "extract" => pc \in {"delay", "extract"}
    /\ pc' = "loop" => pc \in {"enumerate", "pace", "loop"}
HooksInOrder ==
    /\ "login" \in called => "setup" \in called
    /\ "get_product_configurations" \in called => "login" \in called
    /\ "configure_product" \in called => "get_product_configurations" \in called
    /\ "random_delay" \in called => "configure_product" \in called
    /\ "extract_product_data" \in called => "random_delay" \in called
    /\ pc \in Iterating => "cleanup" \notin called
    /\ "cleanup" \in called => pc = "done"
C19_StateOrder == [][InOrder /\ HooksInOrder']_vars

\* a second call on the same scraper has gone through every state and has
\* returned
C19_Witness ==
    /\ pc = "done"
    /\ runs = 2
    /\ outcome = "completed"
    /\ "extract_product_data" \in called
    /\ Len(configurations) = MaxConfigs


\* C17: a fault in an export writer or in the offline analysis is logged and
\* raised again to the caller, and only such a fault escapes from main
IsFault(k, origins) == main_log[k].kind = "fault" /\ main_log[k].at \in origins
FollowedBy(k, events) ==
    /\ k + Len(events) <= Len(main_log)
    /\ \A i \in 1..Len(events) : main_log[k + i] = events[i]
WriterFaultsReraised ==
    \A k \in 1..Len(main_log) : \A w \in Writers :
        IsFault(k, {w}) => FollowedBy(k, <<Event("log.error", w), Event("raise", w)>>)
AnalysisFaults == {"read_file", "analysis"}
AnalysisFaulted == \E k \in 1..Len(main_log) : IsFault(k, AnalysisFaults)
MainEnded == entry_point \in Mains /\ main_pc \in {"returned", "raised"}
C17_FaultsReraised ==
    /\ WriterFaultsReraised
    /\ (MainEnded /\ AnalysisFaulted) =>
          /\ main_pc = "raised"
          /\ \E k \in 1..Len(main_log) : main_log[k].kind = "log.error"
    /\ (MainEnded /\ main_pc = "raised") =>
          main_result.by \in Writers \cup {"analyze_existing_data"}

\* C17 (amended): a fault in an export writer is logged and raised again to
\* the caller.  A fault in the offline analysis is caught and logged, and
\* analyze_existing_data returns.  A fault of a supplier's export is caught
\* and logged by run_single_scraper and by the loop of run_all_scrapers.
\* What escapes from main is a fault of setup_logging, of the construction
\* of a scraper, or of the steps of run_all_scrapers after the loop: the
\* DataHandler, the combined export and the export of the report.
C17_FaultsHandled ==
    /\ WriterFaultsReraised
    /\ \A k \in 1..Len(main_log) :
          IsFault(k, AnalysisFaults) => FollowedBy(k, caught("analyze_existing_data"))
    /\ (MainEnded /\ entry_point = "main:analyze" /\ main_pc = "raised") =>
          main_result.by = "setup_logging"
    /\ (MainEnded /\ entry_point = "main:single" /\ main_pc = "raised") =>
          main_result.by \in {"setup_logging", "construct"}
    /\ (MainEnded /\ entry_point = "main:all" /\ main_pc = "raised") =>
          \/ main_result.by \in {"setup_logging", "construct"}
          \/ /\ main_result.by \in {"DataHandler", "save_to_excel", "save_to_json"}
             /\ scraper_index = Len(scrapers)
             /\ all_data # <<>>
    /\ \A k \in 1..Len(main_log) :
          (main_log[k] = Event("raise", "save_to_excel") /\ k < Len(main_log)) =>
              main_log[k + 1] \in
                  {Event("caught", "run_all_scrapers"), Event("caught", "run_single_scraper")}

\* run_all_scrapers has caught the fault of one supplier's export, and the
\* fault of the combined export has escaped from main
C17_Witness ==
    /\ entry_point = "main:all"
    /\ main_pc = "raised"
    /\ main_result = Escaped("save_to_excel")
    /\ \E k \in 1..Len(main_log) : main_log[k] = Event("caught", "run_all_scrapers")

\* C20: run_all_scrapers runs Supplier1, Supplier2, Supplier3 in this order,
\* one at a time: a browser session is started only when no session is
\* open, and whenever the next supplier is taken or the loop is over the
\* session of the supplier before is closed, however its run ended
RunsStarted == SelectSeq(main_log, LAMBDA x : x.kind = "run")
RunsInOrder ==
    /\ Len(RunsStarted) <= 3
    /\ \A k \in 1..Len(RunsStarted) :
          RunsStarted[k].at = <<"Supplier1", "Supplier2", "Supplier3">>[k]
    /\ main_pc = "running" =>
          /\ Len(RunsStarted) = scraper_index
          /\ strategy = scraper_class(RunsStarted[scraper_index].at)
OneSession ==
    /\ Cardinality(sessions) <= 1
    /\ main_pc # "running" => sessions = {}
    /\ main_pc = "running" /\ pc \in {"idle", "done"} => sessions = {}
SessionStarts == sessions' # sessions /\ sessions' # {}
C20_OneSessionAtATime ==
    /\ [](entry_point = "main:all" => RunsInOrder /\ OneSession)
    /\ [][(entry_point = "main:all" /\ SessionStarts) =>
              /\ sessions = {}
              /\ driver = 0
              /\ pc = "setup"]_vars

\* the third supplier runs in its session after the run of the first ended
\* in the fatal handler and the second failed to log in
C20_Witness ==
    /\ entry_point = "main:all"
    /\ scraper_index = 3
    /\ pc = "extract"
    /\ sessions # {}
    /\ all_data = <<>>


\* C21: whichever supplier's configure_product runs, a material or color of
\* the configuration that matches no option of its control (by label or by
\* value, in any case) is left unset, the calculate step is still taken,
\* and the method returns True when that step succeeds
NoOption(field) ==
    /\ Truthy(f_args.config[field])
    /\ f_args.page.control[field] = "found"
    /\ \A o \in f_args.page.options[field] :
          /\ ~str_in(str_lower(f_args.config[field].s), str_lower(o.label))
          /\ ~str_in(str_lower(f_args.config[field].s), str_lower(o.value))
PageResponds ==
    /\ f_args.page.navigate
    /\ f_args.page.inputs
    /\ f_args.page.calculator
    /\ f_args.page.control.material # "raise"
    /\ f_args.page.control.color # "raise"
ConfigureProductReturned == f_name = "configure_product" /\ f_pc = "returned"
C21_MismatchNotFatal ==
    (ConfigureProductReturned /\ PageResponds) =>
        /\ NoOption("material") => f_result.material = "unset"
        /\ NoOption("color") => f_result.color = "unset"
        /\ (NoOption("material") \/ NoOption("color")) =>
              /\ f_result.clicked
              /\ f_result.ok = f_args.page.calculate


\* C22: wait_for_element and wait_for_clickable never raise: they return
\* the element, and for every failure of the wait, a timeout or any other
\* error of the driver, they return None
C22_WaitNeverRaises ==
    f_name \in WaitOperations =>
        /\ f_pc # "raised"
        /\ f_pc = "returned" =>
              f_result = (IF Logged("wait") THEN Element(f_args.locator)
                          ELSE Returned(None))


\* the characters clean_text may leave: \s is a plain space once the runs
\* are collapsed
CleanChars == WordChars \cup {" ", "-", ".", "$", "(", ")", "/"}
OnlyCleanChars(text) == \A i \in 1..Len(text) : text[i] \in CleanChars
Trimmed(text) ==
    text # <<>> => (text[1] \notin Whitespace /\ text[Len(text)] \notin Whitespace)
NoWhitespaceRun(text) ==
    \A i \in 1..(Len(text) - 1) : ~(text[i] \in Whitespace /\ text[i + 1] \in Whitespace)
Normalised(text) == OnlyCleanChars(text) /\ Trimmed(text) /\ NoWhitespaceRun(text)

\* C23 as stated: for every input the result of clean_text holds only
\* whitelisted characters, has no whitespace at either end and no run of
\* two or more whitespace characters, and cleaning it again changes nothing
C23_CleanTextNormalised ==
    /\ (f_name = "clean_text" /\ f_pc = "returned") => Normalised(f_result)
    /\ (f_name = "clean_text" /\ f_pc = "cleaned_again") => f_result = f_log[1]

\* C23 amended: the result of clean_text holds only whitelisted characters
\* for every input; it is trimmed, free of whitespace runs and unchanged by
\* a second clean_text when the input holds no character outside the
\* whitelist; and the result of the second clean_text is so for every input
C23_CleanTextWhitelisted ==
    /\ (f_name = "clean_text" /\ f_pc = "returned") =>
          /\ OnlyCleanChars(f_result)
          /\ (\A i \in 1..Len(f_args) : f_args[i] \in Whitelist) =>
                (Normalised(f_result) /\ clean_text(f_result) = f_result)
    /\ (f_name = "clean_text" /\ f_pc = "cleaned_again") =>
          /\ Normalised(f_result)
          /\ clean_text(f_result) = f_result

\* "a ! b" was cleaned to "a  b", and that to "a b"
C23_Witness ==
    /\ f_name = "clean_text"
    /\ f_pc = "cleaned_again"
    /\ f_args = <<"a", " ", "!", " ", "b">>
    /\ f_log = << <<"a", " ", " ", "b">> >>
    /\ f_result = <<"a", " ", "b">>


\* the stamp of the i-th record returned was read from the clock during
\* the call (the call starts at time 0 of the model)
StampedDuringCall(i) ==
    /\ "scraped_at" \in DOMAIN heap[combined_data[i]]
    /\ \E time \in 0..clock : heap[combined_data[i]]["scraped_at"] = IsoFormat(time)

\* C24 as stated: every record one call of combine_datasets returns
\* carries a scraped_at read during that call, and all records of the
\* call carry the same value
C24_OneStampPerCall ==
    c_pc = "done" =>
        /\ \A i \in 1..Len(combined_data) : StampedDuringCall(i)
        /\ \A i, j \in 1..Len(combined_data) :
              heap[combined_data[i]]["scraped_at"] = heap[combined_data[j]]["scraped_at"]

\* C24 amended: every record one call of combine_datasets returns carries
\* a scraped_at read from the clock during that call, at the moment the
\* record is appended (the records have none before the call); the
\* values of two records may differ
C24_StampedAtCombineTime ==
    /\ \A o \in ObjIds :
          (c_pc = "idle" \/ \A i \in 1..Len(combined_data) : combined_data[i] # o)
              => "scraped_at" \notin DOMAIN heap[o]
    /\ c_pc \in {"loop", "done"} =>
          \A i \in 1..Len(combined_data) : StampedDuringCall(i)

\* the call has returned two records whose stamps differ
C24_Witness ==
    /\ c_pc = "done"
    /\ Len(combined_data) >= 2
    /\ heap[combined_data[1]]["scraped_at"] = IsoFormat(0)
    /\ heap[combined_data[Len(combined_data)]]["scraped_at"] = IsoFormat(1)


\* start_browser raised inside setup(): the except clause was reached
\* before login was called
StartFailed == pc \in {"cleanup", "done"} /\ outcome = "fatal" /\ "login" \notin called

\* the call returns the list collected so far, which is empty on the first
\* call of a scraper, and neither list has changed
ReturnsCollected ==
    /\ ret = scraped_data
    /\ scraped_data = scraped0
    /\ failed_items = failed0
    /\ runs = 1 => ret = <<>>

\* C25 as stated: when start_browser raises inside setup,
\* scrape_all_products does not raise; login and enumeration are skipped,
\* the fatal screenshot and close_browser are invoked while no session
\* exists, and the call returns the (empty) collected list
C25_StartFailureNoSession ==
    StartFailed =>
        /\ called \cap {"login", "get_product_configurations"} = {}
        /\ "fatal_error" \in screenshots
        /\ sessions = {}
        /\ pc = "done" => ("cleanup" \in called /\ ReturnsCollected)

\* C25 amended: the same, except that a session exists when start_browser
\* raised after the driver was created; close_browser then ends it
C25_StartFailureContained ==
    StartFailed =>
        /\ called \cap {"login", "get_product_configurations"} = {}
        /\ "fatal_error" \in screenshots
        /\ pc = "cleanup" => sessions = (IF driver = runs THEN {runs} ELSE {})
        /\ pc = "done" => ("cleanup" \in called /\ sessions = {} /\ ReturnsCollected)

\* the first call of a scraper has returned after the browser was not
\* created
C25_Witness ==
    /\ StartFailed
    /\ pc = "done"
    /\ driver = 0
    /\ ret = <<>>


\* scrape_single_product has returned a record
MergeReturned ==
    f_name = "scrape_single_product" /\ f_pc = "returned" /\ ~f_result.r.none
\* the configuration defines the key, with a value
Configured(key) == key \in DOMAIN f_args.config /\ ~IsNone(f_args.config[key])
HoldsConfigured(key) ==
    key \in DOMAIN f_result.r.d /\ f_result.r.d[key] = f_args.config[key]
\* extract_product_data read a "type"
ScrapedType ==
    "type" \in DOMAIN f_args.extracted.d /\ ~IsNone(f_args.extracted.d["type"])

ParsesToZero(text) ==
    /\ IsStr(text)
    /\ IsNum(extract_price(text.s))
    /\ extract_price(text.s).m = 0

\* C27: for each of the three suppliers, when the text of the price region
\* parses to 0, extract_product_data returns None, scrape_single_product
\* returns None, and the configuration goes to failed_items while nothing
\* is appended to scraped_data
C27_ZeroPriceFails ==
    (f_name = "scrape_single_product" /\ ParsesToZero(f_args.page.price)) =>
        /\ f_pc \in {"returned", "recorded"} => (f_log[1] = NoResult /\ f_result = NoResult)
        /\ f_pc = "recorded" =>
              (f_log[2].failed = <<f_args.config>> /\ f_log[2].scraped = <<>>)

\* Supplier 3 read "$0.00", with every other region of the page present,
\* and the configuration was recorded as failed
C27_Witness ==
    /\ f_name = "scrape_single_product"
    /\ f_pc = "recorded"
    /\ f_args.page.supplier = "Supplier_3"
    /\ f_args.page.price = Str(<<"$", "0", ".", "0", "0">>)
    /\ IsStr(f_args.page.main) /\ IsStr(f_args.page.breakdown)
    /\ f_log[2].failed = <<f_args.config>>


\* the suppliers run_all_scrapers has finished with, in order
SuppliersDone ==
    IF main_pc \in {"construct", "running"} THEN SubSeq(scrapers, 1, scraper_index - 1)
    ELSE IF main_pc \in {"report", "returned", "raised"} /\ scraper_index = Len(scrapers)
    THEN scrapers ELSE SubSeq(scrapers, 1, scraper_index - 1)
\* the run of the supplier returned data
ReturnedData(supplier_name) ==
    \E i \in 1..Len(main_log) :
        /\ main_log[i] = Event("run", supplier_name)
        /\ i < Len(main_log)
        /\ main_log[i + 1].at = "save_to_excel"
\* the export of the supplier's data failed
ExportFailed(supplier_name) ==
    \E i \in 1..Len(main_log) :
        /\ main_log[i] = Event("run", supplier_name)
        /\ i < Len(main_log)
        /\ main_log[i + 1] = Event("fault", "save_to_excel")
InList(list, x) == \E i \in 1..Len(list) : list[i] = x

\* C28: in run_all_scrapers all_data and supplier_names have the same
\* length and the i-th name is the name of the scraper that returned the
\* i-th dataset; a supplier is in both when its run returned data, also
\* when the export of that data failed, and in neither otherwise; the
\* suppliers after it still run; combine_datasets gets for each dataset
\* the name of its supplier
C28_ListsAligned ==
    entry_point = "main:all" =>
        /\ Len(all_data) = Len(main_supplier_names)
        /\ \A i \in 1..Len(all_data) :
              /\ all_data[i] = main_supplier_names[i]
              /\ dataset_supplier_name(main_supplier_names, i - 1) = all_data[i]
        /\ main_pc \notin {"start", "raised"} =>
              \A k \in 1..Len(SuppliersDone) :
                  /\ InList(main_log, Event("run", SuppliersDone[k]))
                  /\ InList(all_data, SuppliersDone[k]) <=> ReturnedData(SuppliersDone[k])
                  /\ InList(main_supplier_names, SuppliersDone[k])
                        <=> ReturnedData(SuppliersDone[k])
        /\ main_pc = "report" => SuppliersDone = scrapers

\* the three suppliers have run: the first returned data whose export
\* failed, the second returned none, the third returned data
C28_Witness ==
    /\ entry_point = "main:all"
    /\ main_pc = "report"
    /\ ExportFailed("Supplier1")
    /\ all_data = <<"Supplier1", "Supplier3">>
    /\ main_supplier_names = <<"Supplier1", "Supplier3">>


\* the record is as it was before the call, but for supplier and scraped_at
OtherFieldsKept(o) ==
    /\ DOMAIN heap[o] = DOMAIN InitialHeap[o] \cup {"supplier", "scraped_at"}
    /\ \A k \in DOMAIN InitialHeap[o] \ {"supplier", "scraped_at"} :
          heap[o][k] = InitialHeap[o][k]

\* C29: combine_datasets returns the records of the input datasets
\* themselves, not copies; after the call every input record has as
\* supplier the name given for its dataset, or Supplier_<i+1> when the
\* list of names is too short, and has a scraped_at; records outside the
\* datasets are untouched
C29_StampedInPlace ==
    c_pc = "done" =>
        /\ combined_data = Flatten(datasets)
        /\ \A i \in 1..Len(datasets) : \A j \in 1..Len(datasets[i]) :
              /\ "supplier" \in DOMAIN heap[datasets[i][j]]
              /\ heap[datasets[i][j]]["supplier"] =
                    Str(IF i <= Len(supplier_names) THEN supplier_names[i]
                        ELSE <<"S", "u", "p", "p", "l", "i", "e", "r", "_">> \o ToStr(i))
              /\ "scraped_at" \in DOMAIN heap[datasets[i][j]]
              /\ OtherFieldsKept(datasets[i][j])
        /\ \A o \in ObjIds :
              (\A i \in 1..Len(datasets) : ~InList(datasets[i], o)) => heap[o] = InitialHeap[o]

\* two datasets and one name: the record of the second dataset carries
\* the default name
C29_Witness ==
    /\ c_pc = "done"
    /\ Len(datasets) = 2
    /\ Len(supplier_names) = 1
    /\ datasets[1] # <<>>
    /\ datasets[2] # <<>>
    /\ heap[datasets[2][1]]["supplier"] =
          Str(<<"S", "u", "p", "p", "l", "i", "e", "r", "_", "2">>)
    /\ heap[datasets[1][1]]["supplier"] = Str(supplier_names[1])


\* the k-th combination (from 0) of the supplier's options in the order of
\* the loops: the last loop varies fastest
Combination(supplier, k) ==
    LET last == IF supplier = "Supplier_1" THEN 1
                ELSE IF supplier = "Supplier_2" THEN 3 ELSE 5
        colors == IF supplier = "Supplier_1" THEN s1_colors
                  ELSE IF supplier = "Supplier_2" THEN s2_colors ELSE s3_colors
        materials == IF supplier = "Supplier_1" THEN s1_materials
                     ELSE IF supplier = "Supplier_2" THEN s2_materials ELSE s3_materials
        dimensions == IF supplier = "Supplier_1" THEN s1_dimensions
                      ELSE IF supplier = "Supplier_2" THEN s2_dimensions ELSE s3_dimensions
        l == k % last
        c == (k \div last) % 4
        m == (k \div (last * 4)) % 4
        d == (k \div (last * 16)) % 4
        p == k \div (last * 64)
        base == [product_type |-> Str(<<W_windows, W_doors>>[p + 1]),
                 width |-> Num(dimensions[d + 1].width, 0),
                 height |-> Num(dimensions[d + 1].height, 0),
                 material |-> Str(materials[m + 1]),
                 color |-> Str(colors[c + 1])]
    IN  IF supplier = "Supplier_1" THEN base
        ELSE IF supplier = "Supplier_2"
        THEN DictSet(base, "glass_type", Str(s2_glass_types[l + 1]))
        ELSE DictSet(base, "upgrades", s3_upgrade_options[l + 1])

\* how many configurations a run of the supplier gets
LimitOf(supplier) ==
    IF supplier = "Supplier_1" THEN 50 ELSE IF supplier = "Supplier_2" THEN 40 ELSE 35

\* C30: get_product_configurations returns the first 50 (Supplier 1), 40
\* (Supplier 2) or 35 (Supplier 3) combinations of its options in the
\* order of the loops, all distinct and all with product_type 'windows',
\* so the loop of a run never attempts a 'doors' configuration
C30_FirstCombinations ==
    (f_name = "get_product_configurations" /\ f_pc = "loop") =>
        /\ Len(f_result) = LimitOf(f_args)
        /\ \A k \in 1..Len(f_result) :
              /\ f_result[k] = Combination(f_args, k - 1)
              /\ f_result[k]["product_type"] = Str(W_windows)
        /\ Injective(f_result)
        /\ \A k \in 1..Len(f_log) : f_log[k]["product_type"] # Str(W_doors)

\* the loop of Supplier 3 has attempted all its configurations, the last
\* of which is the last upgrade option of the second material
C30_Witness ==
    /\ f_name = "get_product_configurations"
    /\ f_args = "Supplier_3"
    /\ Len(f_log) = 35
    /\ f_log[35]["material"] = Str(W_aluminum)
    /\ f_log[35]["color"] = Str(W_brown)
    /\ f_log[35]["upgrades"] = StrList(<<W_weatherstripping>>)

====
